---- MODULE Spec2Model ----
(***************************************************************************)
(* Client-side synchronisation engine of the shared whiteboard             *)
(* (src/src/components/Whiteboard/Whiteboard.tsx).                         *)
(*                                                                         *)
(* The component is event driven and single threaded: every action below   *)
(* is one event handler, one timer callback or one continuation of an      *)
(* async function after its await.  React state that the component also    *)
(* mirrors into a ref (notes/notesRef, drawings/drawingsRef) is kept as     *)
(* two variables; the mirror is refreshed by the Render action (commit and  *)
(* passive effects).  Handlers of discrete events (click, key, pointer      *)
(* down/up, input, focus, blur) are rendered synchronously, so they end     *)
(* with the mirror refreshed; updates made by pointer-move handlers and by  *)
(* promise continuations are rendered later, by Render.                     *)
(***************************************************************************)
EXTENDS Integers, Sequences, FiniteSets, TLC

(***************************************************************************)
(* Values                                                                  *)
(***************************************************************************)
Null == "<null>"
None == "<none>"
NullNum == 0 - 999

NoteIds == {"n1", "n2"}

TombstoneWindow == 30000
CacheWindow == 30000
DragGuard == 300
EditGuard == 1000
DrawEndGuard == 1500
DrawEndGuard2 == 2000
SaveDelay == 400
HistoryDepth == 50
BaseZIndex == 10

Str(v) == IF v = Null THEN "" ELSE v

SetMax(S) == CHOOSE m \in S : \A k \in S : k <= m

SetMin(S) == CHOOSE m \in S : \A k \in S : m <= k

MapSet(m, k, v) == [q \in (DOMAIN m) \cup {k} |-> IF q = k THEN v ELSE m[q]]

MapDel(m, ks) == [q \in (DOMAIN m) \ ks |-> m[q]]

EmptyMap == [q \in {} |-> 0]

Ids(s) == {s[i].id : i \in 1..Len(s)}

(* what find() and Map.get() give for an id that is not there *)
Missing == [id |-> Null]

(* Array.prototype.find: the first element with the id *)
Find(s, id) ==
  IF \E i \in 1..Len(s) : s[i].id = id
  THEN s[SetMin({i \in 1..Len(s) : s[i].id = id})]
  ELSE Missing

(* new Map(list.map(n => [n.id, n])).get(id): the last element with the id *)
MapGet(s, id) ==
  IF \E i \in 1..Len(s) : s[i].id = id
  THEN s[SetMax({i \in 1..Len(s) : s[i].id = id})]
  ELSE Missing

(***************************************************************************)
(* Notes: rows, mapping and signature                                      *)
(***************************************************************************)
mapDbNote(n) ==
  [id |-> n.id,
   type |-> n.type,
   x |-> IF n.x = NullNum THEN 100 ELSE n.x,
   y |-> IF n.y = NullNum THEN 100 ELSE n.y,
   width |-> IF n.width = NullNum THEN 200 ELSE n.width,
   height |-> IF n.height = NullNum THEN 200 ELSE n.height,
   rotation |-> IF n.rotation = NullNum THEN 0 ELSE n.rotation,
   zIndex |-> IF n.z_index = NullNum THEN 1 ELSE n.z_index,
   color |-> IF n.color = Null THEN "yellow" ELSE n.color,
   content |-> IF n.content = Null THEN "" ELSE n.content,
   title |-> IF n.title = Null THEN "" ELSE n.title,
   imageUrl |-> n.image_url,
   fontSize |-> IF n.font_size = NullNum THEN 16 ELSE n.font_size,
   createdAt |-> n.created_at,
   updatedAt |-> n.updated_at,
   status |-> n.status,
   freshness |-> IF n.freshness # Null THEN n.freshness ELSE n.freshness_status]

noteSignature(n) ==
  n.id \o "|" \o n.type \o "|" \o ToString(n.x) \o "|" \o ToString(n.y) \o "|" \o
  ToString(n.width) \o "|" \o ToString(n.height) \o "|" \o ToString(n.rotation) \o "|" \o
  ToString(n.zIndex) \o "|" \o n.color \o "|" \o n.content \o "|" \o Str(n.title) \o "|" \o
  Str(n.imageUrl) \o "|" \o ToString(n.fontSize) \o "|" \o Str(n.updatedAt) \o "|" \o
  Str(n.status) \o "|" \o Str(n.freshness)

IsLock(status) == status = "grabbing" \/ status = "drawing"

(* mutation of ExpireTombstones: every tombstone is dropped at once *)
ExpireAtOnce(deleted, t) == [q \in {} |-> t]

ExpireTombstones(deleted, t) ==
  [q \in {k \in DOMAIN deleted : ~(t - deleted[k] > TombstoneWindow)} |-> deleted[q]]

(* The kept-or-replaced copy of one locally held note (lines 346-351). *)
(* a merge step that never took the remote copy *)
MergeKeepLocal(n, mapped, dirty) == n

MergeNote(n, mapped, dirty) ==
  LET incoming == Find(mapped, n.id) IN
  IF incoming.id = Null THEN n
  ELSE IF n.id \in dirty THEN n
  ELSE IF IsLock(incoming.status) THEN n
  ELSE IF noteSignature(incoming) # noteSignature(n) THEN incoming ELSE n

(* const changed of fetchNotesOnce (lines 362-366) *)
NotesChanged(currentNotes, nextNotes) ==
  \/ Len(nextNotes) # Len(currentNotes)
  \/ \E i \in 1..Len(nextNotes) :
       LET prev == MapGet(currentNotes, nextNotes[i].id) IN
       noteSignature(nextNotes[i]) #
         noteSignature(IF prev.id = Null THEN nextNotes[i] ELSE prev)

(* The part of fetchNotesOnce that runs after the fetch has resolved with  *)
(* the row list data (lines 325-367), as a function of what it reads.      *)
NotesMerge(current, deleted, dirty, data, t) ==
  LET live == ExpireTombstones(deleted, t)
      rows == SelectSeq(data, LAMBDA r : r.id \notin DOMAIN live)
      mapped == [i \in 1..Len(rows) |-> mapDbNote(rows[i])]
      hasNew == \E i \in 1..Len(mapped) : mapped[i].freshness = "new"
      currentNotes == SelectSeq(current, LAMBDA n : n.id \notin DOMAIN live)
      currentIds == Ids(currentNotes)
      incomingIds == Ids(mapped)
      idsChanged == Cardinality(currentIds) # Cardinality(incomingIds)
                    \/ \E id \in incomingIds : id \notin currentIds
      kept == SelectSeq(currentNotes, LAMBDA n : n.id \in incomingIds)
      merged == [i \in 1..Len(kept) |-> MergeNote(kept[i], mapped, dirty)]
      added == SelectSeq(mapped, LAMBDA n : n.id \notin currentIds)
      nextNotes == merged \o added
      maxZ == SetMax({mapped[i].zIndex : i \in 1..Len(mapped)} \cup {BaseZIndex})
      changed == NotesChanged(currentNotes, nextNotes)
  IN [deleted |-> live,
      skipped |-> ~hasNew /\ ~idsChanged,
      nextNotes |-> nextNotes,
      maxZ |-> maxZ,
      changed |-> changed]

(***************************************************************************)
(* Strokes: normalisation and signature                                    *)
(***************************************************************************)
normalizeDrawing(d) ==
  [id |-> d.id,
   path_points |-> d.path_points,
   color |-> d.color,
   updated_at |-> d.updated_at,
   status |-> d.status,
   freshness |-> IF d.freshness # Null THEN d.freshness ELSE d.freshness_status]

PointStr(p) == ToString(p.x) \o "," \o ToString(p.y)

drawingSignature(d) ==
  d.id \o "|" \o Str(d.color) \o "|" \o ToString(Len(d.path_points)) \o "|" \o
  (IF Len(d.path_points) > 0 THEN PointStr(d.path_points[Len(d.path_points)]) ELSE "") \o "|" \o
  Str(d.updated_at) \o "|" \o Str(d.status) \o "|" \o Str(d.freshness)

(***************************************************************************)
(* State                                                                   *)
(***************************************************************************)
VARIABLES
  now,                  \* Date.now()
  notes,                \* the Notes store (React state, all updaters applied)
  notesRef,             \* notesRef.current and the notes value captured by the rendered closures
  dirtyNotesRef,
  deletedNotesRef,
  highestZIndex,
  lastLocalNoteEditRef,
  lastDragAtRef,
  dragState,
  pendingNoteSaveIdRef,
  saveTimers,
  selectedNoteIds,
  focusedNote,          \* the note whose text area has the keyboard focus
  usedIds,              \* ids makeId() has returned
  unsavedNotes,         \* locally created notes no write of which has succeeded yet:
                        \* id -> a PUT of the note is awaiting its response
  noteDeletes,          \* the note ids a DELETE of which is awaiting its response
  drawingDeletes,       \* the stroke ids a DELETE of which has been issued
  lastOrientation,      \* the orientation handleResize saw last
  effectiveWhiteboardId, \* the board id the requests carry
  boardChecks,          \* the board ids an ensureWhiteboardExists run is awaiting the backend for
  boardsChecked,        \* the board ids an ensureWhiteboardExists run has found or created
  deleteSelectedSeen,   \* the isOffline and whiteboardReady values the memoised
                        \* deleteSelected callback closed over
  activeTool,
  history,
  future,
  drawings,             \* the Strokes store
  drawingsRef,
  isDrawing,
  currentPathRef,
  currentDrawingIdRef,
  cancelCurrentDrawingRef,
  drawingsCacheRef,
  deletedDrawingsRef,
  localDrawingIdsRef,
  lastDrawingEndRef,
  touchDrawingActiveRef,
  drawingSaves,         \* PUT requests of saveDrawing awaiting their response
  runs,                 \* async flows awaiting a list fetch
  effectGen,            \* how many times the fetch callbacks and the interval effect were re-created
  whiteboardReady,
  isOffline,
  ensurePending,        \* ensureWhiteboardExists is awaiting the backend
  lastMerge,            \* history variable: the rows of the latest merge of each
                        \* collection, none once a local operation has followed it
  whiteboards,          \* the backend's whiteboards table, in created_at order
  sbRows,               \* the backend's whiteboard_notes and whiteboard_drawings tables:
                        \* table -> row id -> row
  requests              \* the requests handleWhiteboardApi is serving: slot -> request,
                        \* each at an await of a backend call

noteVars == <<notes, notesRef, dirtyNotesRef, deletedNotesRef, highestZIndex,
              lastLocalNoteEditRef, pendingNoteSaveIdRef, saveTimers, selectedNoteIds,
              focusedNote>>

dragVars == <<lastDragAtRef, dragState>>

histVars == <<history, future>>

boardVars == <<effectiveWhiteboardId, boardChecks, boardsChecked>>

writeVars == <<unsavedNotes, noteDeletes, drawingDeletes, lastOrientation, boardVars>>

drawVars == <<drawings, drawingsRef, isDrawing, currentPathRef, currentDrawingIdRef,
              cancelCurrentDrawingRef, drawingsCacheRef, deletedDrawingsRef,
              localDrawingIdsRef, lastDrawingEndRef, touchDrawingActiveRef, drawingSaves>>

envVars == <<effectGen, whiteboardReady, isOffline, ensurePending>>

serverVars == <<whiteboards, sbRows, requests>>

clientVars == <<now, noteVars, dragVars, histVars, drawVars, envVars,
                usedIds, writeVars, deleteSelectedSeen, activeTool, runs, lastMerge>>

vars == <<clientVars, serverVars>>

(***************************************************************************)
(* Helpers of the handlers                                                 *)
(***************************************************************************)
MapNotes(s, id, f(_)) == [i \in 1..Len(s) |-> IF s[i].id = id THEN f(s[i]) ELSE s[i]]

(* setNoteStatusLocal's updater *)
setNoteStatusLocal(s, id, status) == MapNotes(s, id, LAMBDA n : [n EXCEPT !.status = status])

(* bringToFront's updater, z being the incremented counter *)
bringToFront(s, id, z) == MapNotes(s, id, LAMBDA n : [n EXCEPT !.zIndex = z])

(* mutation of PushSnapshot: the slice is dropped *)
PushUnbounded(h, snapshot) == Append(h, snapshot)

(* saveHistorySnapshot: setHistory(prev => [...prev, [...notes]].slice(-50)) *)
PushSnapshot(h, snapshot) ==
  LET pushed == Append(h, snapshot) IN
  IF Len(pushed) > HistoryDepth
  THEN SubSeq(pushed, Len(pushed) - HistoryDepth + 1, Len(pushed))
  ELSE pushed

(* A text area is unmounted, without a blur event, when its note leaves the  *)
(* rendered collection.                                                      *)
FocusAfterRender(rendered) == IF focusedNote \in Ids(rendered) THEN focusedNote ELSE None

(* window.setTimeout(..., 400) of scheduleSaveNote, replacing the id's timer *)
(* a scheduleSaveNote that kept the deadline of the timer it replaces *)
scheduleKeepingDue(timers, note) ==
  MapSet(timers, note.id,
         [due |-> IF note.id \in DOMAIN timers THEN timers[note.id].due ELSE now + SaveDelay,
          note |-> note])

scheduleSaveNote(timers, note) == MapSet(timers, note.id, [due |-> now + SaveDelay, note |-> note])

ScheduleAll(timers, s, ids) ==
  [q \in (DOMAIN timers) \cup (ids \cap Ids(s)) |->
     IF q \in ids \cap Ids(s) THEN [due |-> now + SaveDelay, note |-> MapGet(s, q)]
     ELSE timers[q]]

NewNote(id, x, y, type, rot, z) ==
  LET width == IF type = "text" THEN 400 ELSE IF type = "image" THEN 300 ELSE 256
      height == IF type = "text" THEN 100 ELSE IF type = "image" THEN 300 ELSE 256
  IN [id |-> id,
      type |-> type,
      x |-> IF type = "text" THEN x ELSE x - width \div 2,
      y |-> IF type = "text" THEN y ELSE y - height \div 2,
      width |-> width,
      height |-> height,
      rotation |-> IF type = "text" \/ type = "image" THEN 0 ELSE rot,
      zIndex |-> z,
      color |-> IF type = "text" \/ type = "image" THEN "transparent" ELSE "yellow",
      content |-> "",
      title |-> IF type = "text" THEN "Text Box" ELSE IF type = "image" THEN "Image" ELSE "New Note",
      imageUrl |-> Null,
      fontSize |-> IF type = "text" THEN 24 ELSE 16,
      createdAt |-> now,
      updatedAt |-> Null,
      status |-> Null,
      freshness |-> Null]

(* upsertNote issues its PUT unless offline or the board is not ready *)
upsertIssued == ~isOffline /\ whiteboardReady

(* upsertNote(note) for the notes ids, as seen by the notes awaiting their *)
(* first successful write                                                  *)
MarkWrite(u, ids) == [q \in DOMAIN u |-> u[q] \/ (q \in ids /\ upsertIssued)]

NoDrag == [type |-> None]

NoRows == [valid |-> FALSE]

NoMerge == [notes |-> NoRows, drawings |-> NoRows]

(***************************************************************************)
(* Notes: local operations                                                 *)
(***************************************************************************)
(* setActiveTool from the toolbar buttons and the keyboard shortcuts *)
SetActiveTool(tool) ==
  /\ focusedNote = None
  /\ tool \in {"select", "hand", "note", "text"}
  /\ activeTool' = tool
  /\ UNCHANGED <<now, noteVars, dragVars, histVars, drawVars, envVars, usedIds, writeVars, runs>>

LANDSCAPE_SIZE == [width |-> 1920, height |-> 1080]

PORTRAIT_SIZE == [width |-> 1080, height |-> 1920]

(* the canvas size handleResize set with the orientation *)
canvasSize == IF lastOrientation = "portrait" THEN PORTRAIT_SIZE ELSE LANDSCAPE_SIZE

(* the position passes the bounds check of addNote *)
InBounds(x, y) == ~(x < 0 \/ y < 0 \/ x > canvasSize.width \/ y > canvasSize.height)

(* a quarter turn that maps back with the landscape width *)
RotatedWide(note, newOrientation) ==
  LET cx == note.x + note.width \div 2
      cy == note.y + note.height \div 2
      newCx == IF newOrientation = "portrait" THEN PORTRAIT_SIZE.width - cy ELSE cy
      newCy == IF newOrientation = "portrait" THEN cx ELSE LANDSCAPE_SIZE.width - cx
  IN [note EXCEPT !.x = newCx - note.width \div 2, !.y = newCy - note.height \div 2]

(* the note handleResize puts in place of note when the orientation turns *)
Rotated(note, newOrientation) ==
  LET cx == note.x + note.width \div 2
      cy == note.y + note.height \div 2
      newCx == IF newOrientation = "portrait" THEN PORTRAIT_SIZE.width - cy ELSE cy
      newCy == IF newOrientation = "portrait" THEN cx ELSE LANDSCAPE_SIZE.height - cx
  IN [note EXCEPT !.x = newCx - note.width \div 2, !.y = newCy - note.height \div 2]

(* handleResize, the window's resize listener *)
HandleResize(newOrientation) ==
  /\ newOrientation # lastOrientation
  /\ notes' = [i \in 1..Len(notes) |-> Rotated(notes[i], newOrientation)]
  /\ notesRef' = notes'
  /\ lastOrientation' = newOrientation
  /\ UNCHANGED <<now, dirtyNotesRef, deletedNotesRef, highestZIndex, focusedNote,
                 selectedNoteIds, saveTimers, lastLocalNoteEditRef, pendingNoteSaveIdRef,
                 dragVars, histVars, drawVars, envVars, usedIds, unsavedNotes, noteDeletes,
                 drawingDeletes, boardVars, activeTool, runs>>

(* an addNote that left the store to the next poll *)
AddNoteUnshown(id, x, y, rot) ==
  LET type == IF activeTool = "text" THEN "text" ELSE "sticky"
      newNote == NewNote(id, x, y, type, rot, highestZIndex + 1)
      next == Append(notes, newNote)
  IN /\ focusedNote = None
     /\ activeTool \in {"note", "text"}
     /\ InBounds(x, y)
     /\ id \notin usedIds
     /\ usedIds' = usedIds \cup {id}
     /\ history' = PushSnapshot(history, notesRef)
     /\ future' = <<>>
     /\ highestZIndex' = highestZIndex + 1
     /\ notes' = notes
     /\ notesRef' = notes
     /\ selectedNoteIds' = {id}
     /\ activeTool' = "select"
     /\ unsavedNotes' = MapSet(unsavedNotes, id, upsertIssued)
     /\ noteDeletes' = noteDeletes
     /\ drawingDeletes' = drawingDeletes
     /\ lastOrientation' = lastOrientation
     /\ UNCHANGED boardVars
     /\ UNCHANGED <<now, dirtyNotesRef, deletedNotesRef, lastLocalNoteEditRef,
                    pendingNoteSaveIdRef, saveTimers, focusedNote, dragVars, drawVars,
                    envVars, runs>>

(* pointer-down on the canvas with the note or text tool: addNote *)
AddNote(id, x, y, rot) ==
  LET type == IF activeTool = "text" THEN "text" ELSE "sticky"
      newNote == NewNote(id, x, y, type, rot, highestZIndex + 1)
      next == Append(notes, newNote)
  IN /\ focusedNote = None
     /\ activeTool \in {"note", "text"}
     /\ InBounds(x, y)
     /\ id \notin usedIds
     /\ usedIds' = usedIds \cup {id}
     /\ history' = PushSnapshot(history, notesRef)
     /\ future' = <<>>
     /\ highestZIndex' = highestZIndex + 1
     /\ notes' = next
     /\ notesRef' = next
     /\ selectedNoteIds' = {id}
     /\ activeTool' = "select"
     /\ unsavedNotes' = MapSet(unsavedNotes, id, upsertIssued)
     /\ noteDeletes' = noteDeletes
     /\ drawingDeletes' = drawingDeletes
     /\ lastOrientation' = lastOrientation
     /\ UNCHANGED boardVars
     /\ UNCHANGED <<now, dirtyNotesRef, deletedNotesRef, lastLocalNoteEditRef,
                    pendingNoteSaveIdRef, saveTimers, focusedNote, dragVars, drawVars,
                    envVars, runs>>

(* deleteNoteFromDb issues its DELETE unless offline or the board is not     *)
(* ready, as the callback that calls it saw them                            *)
deleteIssued == ~deleteSelectedSeen.offline /\ deleteSelectedSeen.ready

(* deleteSelected: Delete/Backspace key or the toolbar button *)
DeleteSelected ==
  LET next == SelectSeq(notes, LAMBDA n : n.id \notin selectedNoteIds) IN
  /\ focusedNote = None
  /\ selectedNoteIds # {}
  /\ history' = PushSnapshot(history, notesRef)
  /\ future' = <<>>
  /\ deletedNotesRef' = [q \in (DOMAIN deletedNotesRef) \cup selectedNoteIds |->
                           IF q \in selectedNoteIds THEN now ELSE deletedNotesRef[q]]
  /\ notes' = next
  /\ notesRef' = next
  /\ selectedNoteIds' = {}
  /\ noteDeletes' = IF deleteIssued THEN noteDeletes \cup selectedNoteIds ELSE noteDeletes
  /\ drawingDeletes' = drawingDeletes
  /\ lastOrientation' = lastOrientation
  /\ UNCHANGED boardVars
  /\ UNCHANGED <<now, dirtyNotesRef, highestZIndex, lastLocalNoteEditRef,
                 pendingNoteSaveIdRef, saveTimers, focusedNote, dragVars, drawVars,
                 envVars, usedIds, unsavedNotes, activeTool, runs>>

(* updateNoteColor from the colour picker of the single selected note *)
UpdateNoteColor(color) ==
  LET next == [i \in 1..Len(notes) |->
                 IF notes[i].id \in selectedNoteIds
                 THEN [notes[i] EXCEPT !.color = color, !.type = "sticky"]
                 ELSE notes[i]]
  IN /\ focusedNote = None
     /\ Cardinality(selectedNoteIds) = 1
     /\ selectedNoteIds \subseteq Ids(notesRef)
     /\ history' = PushSnapshot(history, notesRef)
     /\ future' = <<>>
     /\ notes' = next
     /\ notesRef' = next
     /\ saveTimers' = ScheduleAll(saveTimers, next, selectedNoteIds)
     /\ UNCHANGED <<now, dirtyNotesRef, deletedNotesRef, highestZIndex, lastLocalNoteEditRef,
                    pendingNoteSaveIdRef, selectedNoteIds, focusedNote, dragVars, drawVars,
                    envVars, usedIds, writeVars, activeTool, runs>>

(* updateNoteFontSize from the +/- buttons of the single selected note *)
UpdateNoteFontSize(increment) ==
  LET clamp(v) == IF v < 8 THEN 8 ELSE IF v > 96 THEN 96 ELSE v
      next == [i \in 1..Len(notes) |->
                 IF notes[i].id \in selectedNoteIds
                 THEN [notes[i] EXCEPT !.fontSize = clamp(notes[i].fontSize + increment)]
                 ELSE notes[i]]
  IN /\ focusedNote = None
     /\ Cardinality(selectedNoteIds) = 1
     /\ selectedNoteIds \subseteq Ids(notesRef)
     /\ notes' = next
     /\ notesRef' = next
     /\ saveTimers' = ScheduleAll(saveTimers, next, selectedNoteIds)
     /\ UNCHANGED <<now, dirtyNotesRef, deletedNotesRef, highestZIndex, lastLocalNoteEditRef,
                    pendingNoteSaveIdRef, selectedNoteIds, focusedNote, dragVars, histVars,
                    drawVars, envVars, usedIds, writeVars, activeTool, runs>>

(* pointer-down inside the text area of a note, which then takes the focus: *)
(* the text area's onPointerDown followed by its onFocus                    *)
FocusNote(id) ==
  LET z == highestZIndex + 1
      next == setNoteStatusLocal(bringToFront(notes, id, z), id, "grabbing")
  IN /\ focusedNote = None
     /\ id \in Ids(notesRef)
     /\ activeTool # "hand"
     /\ selectedNoteIds' = IF id \in selectedNoteIds THEN selectedNoteIds ELSE {id}
     /\ highestZIndex' = z
     /\ dirtyNotesRef' = dirtyNotesRef \cup {id}
     /\ notes' = next
     /\ notesRef' = next
     /\ focusedNote' = IF id \in Ids(next) THEN id ELSE None
     /\ unsavedNotes' = MarkWrite(unsavedNotes, {id})
     /\ noteDeletes' = noteDeletes
     /\ drawingDeletes' = drawingDeletes
     /\ lastOrientation' = lastOrientation
     /\ UNCHANGED boardVars
     /\ UNCHANGED <<now, deletedNotesRef, lastLocalNoteEditRef, pendingNoteSaveIdRef,
                    saveTimers, dragVars, histVars, drawVars, envVars, usedIds, activeTool,
                    runs>>

(* the text area's onBlur *)
BlurNote ==
  LET next == setNoteStatusLocal(notes, focusedNote, Null) IN
  /\ focusedNote # None
  /\ dirtyNotesRef' = dirtyNotesRef \ {focusedNote}
  /\ notes' = next
  /\ notesRef' = next
  /\ focusedNote' = None
  /\ unsavedNotes' = MarkWrite(unsavedNotes, {focusedNote} \cap Ids(notesRef))
  /\ noteDeletes' = noteDeletes
  /\ drawingDeletes' = drawingDeletes
  /\ lastOrientation' = lastOrientation
  /\ UNCHANGED boardVars
  /\ UNCHANGED <<now, deletedNotesRef, highestZIndex, lastLocalNoteEditRef,
                 pendingNoteSaveIdRef, saveTimers, selectedNoteIds, dragVars, histVars,
                 drawVars, envVars, usedIds, activeTool, runs>>

(* the text area's onChange: updateNoteContent *)
UpdateNoteContent(content) ==
  LET id == focusedNote
      next == MapNotes(notes, id, LAMBDA n : [n EXCEPT !.content = content])
  IN /\ focusedNote # None
     /\ notes' = next
     /\ notesRef' = next
     /\ saveTimers' = IF Find(next, id).id # Null
                      THEN scheduleSaveNote(saveTimers, Find(next, id))
                      ELSE saveTimers
     /\ dirtyNotesRef' = dirtyNotesRef \cup {id}
     /\ focusedNote' = FocusAfterRender(next)
     /\ UNCHANGED <<now, deletedNotesRef, highestZIndex, lastLocalNoteEditRef,
                    pendingNoteSaveIdRef, selectedNoteIds, dragVars, histVars, drawVars,
                    envVars, usedIds, writeVars, activeTool, runs>>

(* the timer callback of scheduleSaveNote: upsertNote(note), delete the timer *)
SaveTimerFire(id) ==
  /\ id \in DOMAIN saveTimers
  /\ saveTimers[id].due <= now
  /\ saveTimers' = MapDel(saveTimers, {id})
  /\ unsavedNotes' = MarkWrite(unsavedNotes, {id})
  /\ noteDeletes' = noteDeletes
  /\ drawingDeletes' = drawingDeletes
  /\ lastOrientation' = lastOrientation
  /\ UNCHANGED boardVars
  /\ UNCHANGED <<now, notes, notesRef, dirtyNotesRef, deletedNotesRef, highestZIndex,
                 lastLocalNoteEditRef, pendingNoteSaveIdRef, selectedNoteIds, focusedNote,
                 dragVars, histVars, drawVars, envVars, usedIds, activeTool, runs>>

(* the response of a PUT of upsertNote for a locally created note: the note *)
(* is persisted                                                             *)
NoteSaveDone(id) ==
  /\ id \in DOMAIN unsavedNotes
  /\ unsavedNotes[id]
  /\ unsavedNotes' = MapDel(unsavedNotes, {id})
  /\ noteDeletes' = noteDeletes
  /\ drawingDeletes' = drawingDeletes
  /\ lastOrientation' = lastOrientation
  /\ UNCHANGED boardVars
  /\ UNCHANGED <<now, noteVars, dragVars, histVars, drawVars, envVars, usedIds, activeTool,
                 runs>>

(* the PUT of upsertNote fails: the error is logged *)
NoteSaveFail(id) ==
  /\ id \in DOMAIN unsavedNotes
  /\ unsavedNotes[id]
  /\ unsavedNotes' = MapSet(unsavedNotes, id, FALSE)
  /\ noteDeletes' = noteDeletes
  /\ drawingDeletes' = drawingDeletes
  /\ lastOrientation' = lastOrientation
  /\ UNCHANGED boardVars
  /\ UNCHANGED <<now, noteVars, dragVars, histVars, drawVars, envVars, usedIds, activeTool,
                 runs>>

(* the response of the DELETE of deleteNoteFromDb, success or failure *)
NoteDeleteDone(id) ==
  /\ id \in noteDeletes
  /\ noteDeletes' = noteDeletes \ {id}
  /\ drawingDeletes' = drawingDeletes
  /\ lastOrientation' = lastOrientation
  /\ UNCHANGED boardVars
  /\ UNCHANGED <<now, noteVars, dragVars, histVars, drawVars, envVars, usedIds, unsavedNotes,
                 activeTool, runs>>

(* undo: Ctrl+Z or the toolbar button *)
Undo ==
  /\ focusedNote = None
  /\ Len(history) > 0
  /\ future' = <<notesRef>> \o future
  /\ history' = SubSeq(history, 1, Len(history) - 1)
  /\ notes' = history[Len(history)]
  /\ notesRef' = history[Len(history)]
  /\ UNCHANGED <<now, dirtyNotesRef, deletedNotesRef, highestZIndex, lastLocalNoteEditRef,
                 pendingNoteSaveIdRef, saveTimers, selectedNoteIds, focusedNote, dragVars,
                 drawVars, envVars, usedIds, writeVars, activeTool, runs>>

(* redo: Ctrl+Shift+Z, Ctrl+Y or the toolbar button *)
Redo ==
  /\ focusedNote = None
  /\ Len(future) > 0
  /\ history' = Append(history, notesRef)
  /\ future' = Tail(future)
  /\ notes' = future[1]
  /\ notesRef' = future[1]
  /\ UNCHANGED <<now, dirtyNotesRef, deletedNotesRef, highestZIndex, lastLocalNoteEditRef,
                 pendingNoteSaveIdRef, saveTimers, selectedNoteIds, focusedNote, dragVars,
                 drawVars, envVars, usedIds, writeVars, activeTool, runs>>

(***************************************************************************)
(* Pointer interactions on notes                                           *)
(***************************************************************************)
(* handleNotePointerDown: select, bringToFront, startInteraction('move') *)
NotePointerDown(id, mouse) ==
  LET z == highestZIndex + 1
      note == Find(notesRef, id)
      next == setNoteStatusLocal(bringToFront(notes, id, z), id, "grabbing")
  IN /\ focusedNote = None
     /\ activeTool # "eraser"
     /\ dragState.type = None
     /\ id \in Ids(notesRef)
     /\ selectedNoteIds' = IF id \in selectedNoteIds THEN selectedNoteIds ELSE {id}
     /\ highestZIndex' = z
     /\ history' = PushSnapshot(history, notesRef)
     /\ future' = <<>>
     /\ pendingNoteSaveIdRef' = id
     /\ notes' = next
     /\ notesRef' = next
     /\ dragState' = [type |-> "move", startMouse |-> mouse, startNote |-> note]
     /\ lastDragAtRef' = now
     /\ unsavedNotes' = MarkWrite(unsavedNotes, {id})
     /\ noteDeletes' = noteDeletes
     /\ drawingDeletes' = drawingDeletes
     /\ lastOrientation' = lastOrientation
     /\ UNCHANGED boardVars
     /\ UNCHANGED <<now, dirtyNotesRef, deletedNotesRef, lastLocalNoteEditRef, saveTimers,
                    focusedNote, drawVars, envVars, usedIds, activeTool, runs>>

(* handlePointerMove while a note is being moved (no stroke active, tool not *)
(* the eraser): the store is updated, the mirror is not                      *)
PointerMoveDrag(coords) ==
  LET sn == dragState.startNote
      dx == coords.x - dragState.startMouse.x
      dy == coords.y - dragState.startMouse.y
      next == MapNotes(notes, sn.id, LAMBDA n : [n EXCEPT !.x = sn.x + dx, !.y = sn.y + dy])
  IN /\ ~(isDrawing /\ activeTool = "pen")
     /\ activeTool # "eraser"
     /\ dragState.type = "move"
     /\ lastDragAtRef' = now
     /\ notes' = next
     /\ pendingNoteSaveIdRef' = IF sn.id \in Ids(next) THEN sn.id ELSE pendingNoteSaveIdRef
     /\ lastLocalNoteEditRef' = now
     /\ UNCHANGED <<now, notesRef, dirtyNotesRef, deletedNotesRef, highestZIndex, saveTimers,
                    selectedNoteIds, focusedNote, dragState, histVars, drawVars, envVars,
                    usedIds, writeVars, activeTool, runs>>

(* saveDrawing up to its await: the PUT is issued unless the point count is  *)
(* too small for the status                                                  *)
saveDrawing(saves, id, points, status) ==
  IF status = "drawing" /\ Len(points) < 1 THEN saves
  ELSE IF status # "drawing" /\ Len(points) < 2 THEN saves
  ELSE saves \cup {[id |-> id, status |-> status]}

(* finishPointerInteraction: pointer-up, pointer-cancel, lost capture, touch end *)
(* drawingSeen is the isDrawing value the callback closed over             *)
FinishWith(drawingSeen) ==
  LET saved == ~cancelCurrentDrawingRef /\ Len(currentPathRef) > 0
               /\ currentDrawingIdRef # None
      nextDrawings == IF drawingSeen /\ cancelCurrentDrawingRef /\ currentDrawingIdRef # None
                      THEN SelectSeq(drawings, LAMBDA d : d.id # currentDrawingIdRef)
                      ELSE drawings
      nextNotes == IF pendingNoteSaveIdRef # None
                   THEN setNoteStatusLocal(notes, pendingNoteSaveIdRef, Null)
                   ELSE notes
  IN /\ dragState' = NoDrag
     /\ isDrawing' = FALSE
     /\ lastDrawingEndRef' = IF drawingSeen THEN now ELSE lastDrawingEndRef
     /\ drawingSaves' = IF drawingSeen /\ saved
                        THEN saveDrawing(drawingSaves, currentDrawingIdRef, currentPathRef, Null)
                        ELSE drawingSaves
     /\ currentPathRef' = IF drawingSeen /\ saved THEN <<>> ELSE currentPathRef
     /\ drawings' = nextDrawings
     /\ drawingsRef' = nextDrawings
     /\ cancelCurrentDrawingRef' = IF drawingSeen THEN FALSE ELSE cancelCurrentDrawingRef
     /\ currentDrawingIdRef' = IF drawingSeen THEN None ELSE currentDrawingIdRef
     /\ touchDrawingActiveRef' = FALSE
     /\ notes' = nextNotes
     /\ notesRef' = nextNotes
     /\ pendingNoteSaveIdRef' = None
     /\ focusedNote' = FocusAfterRender(nextNotes)
     /\ unsavedNotes' = MarkWrite(unsavedNotes, {pendingNoteSaveIdRef} \cap Ids(notesRef))
     /\ noteDeletes' = noteDeletes
     /\ drawingDeletes' = drawingDeletes
     /\ lastOrientation' = lastOrientation
     /\ UNCHANGED boardVars
     /\ UNCHANGED <<now, dirtyNotesRef, deletedNotesRef, highestZIndex, lastLocalNoteEditRef,
                    saveTimers, selectedNoteIds, lastDragAtRef, histVars, drawingsCacheRef,
                    deletedDrawingsRef, localDrawingIdsRef, envVars, usedIds, activeTool, runs>>

FinishPointerInteraction == FinishWith(isDrawing)

(* a further invocation for the same pointer-up (window pointerup, container *)
(* pointerup, lost capture, touchend) through the callback of the render     *)
(* in which the stroke was still being drawn                                 *)
FinishAgain ==
  /\ ~isDrawing
  /\ lastDrawingEndRef = now
  /\ currentDrawingIdRef = None
  /\ ~cancelCurrentDrawingRef
  /\ FinishWith(TRUE)

(***************************************************************************)
(* Strokes: local operations                                               *)
(***************************************************************************)
PenColor == "black"

CacheIds(cache) == {cache[i].id : i \in 1..Len(cache)}

(* Map.prototype.set on the insertion-ordered cache *)
CacheSet(cache, id, drawing, seen) ==
  IF id \in CacheIds(cache)
  THEN [i \in 1..Len(cache) |->
          IF cache[i].id = id THEN [id |-> id, drawing |-> drawing, lastSeen |-> seen]
          ELSE cache[i]]
  ELSE Append(cache, [id |-> id, drawing |-> drawing, lastSeen |-> seen])

CacheDelete(cache, ids) == SelectSeq(cache, LAMBDA e : e.id \notin ids)

LocalDrawing(id, points, status) ==
  [id |-> id, path_points |-> points, color |-> PenColor, updated_at |-> Null,
   status |-> status, freshness |-> Null]

updateLocalDrawingCache(cache, id, points) ==
  CacheSet(cache, id, LocalDrawing(id, points, "drawing"), now)

(* handleToolChange: the pen and eraser buttons *)
HandleToolChange(tool) ==
  LET cancel == activeTool = "pen" /\ isDrawing
      next == IF cancel /\ currentDrawingIdRef # None
              THEN SelectSeq(drawings, LAMBDA d : d.id # currentDrawingIdRef)
              ELSE drawings
  IN /\ focusedNote = None
     /\ tool \in {"pen", "eraser"}
     /\ cancelCurrentDrawingRef' = IF cancel THEN TRUE ELSE cancelCurrentDrawingRef
     /\ isDrawing' = IF cancel THEN FALSE ELSE isDrawing
     /\ currentPathRef' = IF cancel THEN <<>> ELSE currentPathRef
     /\ currentDrawingIdRef' = IF cancel THEN None ELSE currentDrawingIdRef
     /\ drawings' = next
     /\ drawingsRef' = next
     /\ activeTool' = tool
     /\ UNCHANGED <<now, noteVars, dragVars, histVars, drawingsCacheRef, deletedDrawingsRef,
                    localDrawingIdsRef, lastDrawingEndRef, touchDrawingActiveRef, drawingSaves,
                    envVars, usedIds, writeVars, runs>>

(* handlePointerDown with the pen tool: a stroke starts *)
PenPointerDown(id, point) ==
  LET next == Append(drawings, LocalDrawing(id, <<point>>, "drawing")) IN
  /\ focusedNote = None
  /\ activeTool = "pen"
  /\ ~isDrawing
  /\ id \notin usedIds
  /\ usedIds' = usedIds \cup {id}
  /\ isDrawing' = TRUE
  /\ cancelCurrentDrawingRef' = FALSE
  /\ currentPathRef' = <<point>>
  /\ currentDrawingIdRef' = id
  /\ localDrawingIdsRef' = localDrawingIdsRef \cup {id}
  /\ drawings' = next
  /\ drawingsRef' = next
  /\ drawingsCacheRef' = updateLocalDrawingCache(drawingsCacheRef, id, <<point>>)
  /\ drawingSaves' = saveDrawing(drawingSaves, id, <<point>>, "drawing")
  /\ UNCHANGED <<now, noteVars, dragVars, histVars, deletedDrawingsRef, lastDrawingEndRef,
                 touchDrawingActiveRef, envVars, writeVars, activeTool,
                 runs>>

(* a pointer-move that persisted the path at every point *)
PointerMoveSaving(point) ==
  LET path == Append(currentPathRef, point)
      last == drawings[Len(drawings)]
      next == IF Len(drawings) = 0 THEN drawings
              ELSE IF currentDrawingIdRef # None /\ last.id # currentDrawingIdRef THEN drawings
              ELSE [drawings EXCEPT ![Len(drawings)] =
                      [last EXCEPT !.path_points = Append(last.path_points, point)]]
  IN /\ isDrawing
     /\ activeTool = "pen"
     /\ ~cancelCurrentDrawingRef
     /\ currentPathRef' = path
     /\ drawings' = next
     /\ drawingsCacheRef' = IF currentDrawingIdRef # None
                            THEN updateLocalDrawingCache(drawingsCacheRef, currentDrawingIdRef, path)
                            ELSE drawingsCacheRef
     /\ drawingSaves' = saveDrawing(drawingSaves, currentDrawingIdRef, path, "drawing")
     /\ UNCHANGED <<now, noteVars, dragVars, histVars, drawingsRef, isDrawing,
                    currentDrawingIdRef, cancelCurrentDrawingRef, deletedDrawingsRef,
                    localDrawingIdsRef, lastDrawingEndRef, touchDrawingActiveRef,
                    envVars, usedIds, writeVars, activeTool, runs>>

(* handlePointerMove while a stroke is being drawn with the pen *)
PointerMoveDraw(point) ==
  LET path == Append(currentPathRef, point)
      last == drawings[Len(drawings)]
      next == IF Len(drawings) = 0 THEN drawings
              ELSE IF currentDrawingIdRef # None /\ last.id # currentDrawingIdRef THEN drawings
              ELSE [drawings EXCEPT ![Len(drawings)] =
                      [last EXCEPT !.path_points = Append(last.path_points, point)]]
  IN /\ isDrawing
     /\ activeTool = "pen"
     /\ ~cancelCurrentDrawingRef
     /\ currentPathRef' = path
     /\ drawings' = next
     /\ drawingsCacheRef' = IF currentDrawingIdRef # None
                            THEN updateLocalDrawingCache(drawingsCacheRef, currentDrawingIdRef, path)
                            ELSE drawingsCacheRef
     /\ UNCHANGED <<now, noteVars, dragVars, histVars, drawingsRef, isDrawing,
                    currentDrawingIdRef, cancelCurrentDrawingRef, deletedDrawingsRef,
                    localDrawingIdsRef, lastDrawingEndRef, touchDrawingActiveRef, drawingSaves,
                    envVars, usedIds, writeVars, activeTool, runs>>

(* handleTouchStart: a stroke starts through the touch events *)
TouchStart(id, point) ==
  LET next == Append(drawings, LocalDrawing(id, <<point>>, Null)) IN
  /\ focusedNote = None
  /\ activeTool = "pen"
  /\ ~isDrawing
  /\ id \notin usedIds
  /\ usedIds' = usedIds \cup {id}
  /\ touchDrawingActiveRef' = TRUE
  /\ isDrawing' = TRUE
  /\ cancelCurrentDrawingRef' = FALSE
  /\ currentPathRef' = <<point>>
  /\ currentDrawingIdRef' = id
  /\ drawings' = next
  /\ drawingsRef' = next
  /\ UNCHANGED <<now, noteVars, dragVars, histVars, drawingsCacheRef, deletedDrawingsRef,
                 localDrawingIdsRef, lastDrawingEndRef, drawingSaves, envVars, writeVars,
                 activeTool, runs>>

(* handleTouchMove *)
TouchMove(point) ==
  LET last == drawings[Len(drawings)]
      next == IF Len(drawings) = 0 THEN drawings
              ELSE IF currentDrawingIdRef # None /\ last.id # currentDrawingIdRef THEN drawings
              ELSE [drawings EXCEPT ![Len(drawings)] =
                      [last EXCEPT !.path_points = Append(last.path_points, point)]]
  IN /\ touchDrawingActiveRef
     /\ currentPathRef' = Append(currentPathRef, point)
     /\ drawings' = next
     /\ UNCHANGED <<now, noteVars, dragVars, histVars, drawingsRef, isDrawing,
                    currentDrawingIdRef, cancelCurrentDrawingRef, drawingsCacheRef,
                    deletedDrawingsRef, localDrawingIdsRef, lastDrawingEndRef,
                    touchDrawingActiveRef, drawingSaves, envVars, usedIds, writeVars,
                    activeTool, runs>>

(* the response of a saveDrawing PUT *)
SaveDrawingDone(req) ==
  /\ req \in drawingSaves
  /\ drawingSaves' = drawingSaves \ {req}
  /\ localDrawingIdsRef' = localDrawingIdsRef \ {req.id}
  /\ UNCHANGED <<now, noteVars, dragVars, histVars, drawings, drawingsRef, isDrawing,
                 currentPathRef, currentDrawingIdRef, cancelCurrentDrawingRef, drawingsCacheRef,
                 deletedDrawingsRef, lastDrawingEndRef, touchDrawingActiveRef, envVars,
                 usedIds, writeVars, activeTool, runs>>

SaveDrawingFail(req) ==
  /\ req \in drawingSaves
  /\ drawingSaves' = drawingSaves \ {req}
  /\ UNCHANGED <<now, noteVars, dragVars, histVars, drawings, drawingsRef, isDrawing,
                 currentPathRef, currentDrawingIdRef, cancelCurrentDrawingRef, drawingsCacheRef,
                 deletedDrawingsRef, localDrawingIdsRef, lastDrawingEndRef,
                 touchDrawingActiveRef, envVars, usedIds, writeVars, activeTool, runs>>

ERASER_RADIUS == 10

MIN_SIZE == 150

WHITEBOARD_ID == "b0"

(* the smallest height a resize leaves a note of the given type *)
minH(type) == IF type = "text" THEN 50 ELSE MIN_SIZE

Hit(points, x, y) ==
  \E i \in 1..Len(points) :
    (points[i].x - x) * (points[i].x - x) + (points[i].y - y) * (points[i].y - y)
      <= ERASER_RADIUS * ERASER_RADIUS

(* checkEraserCollision, from pointer-down and pointer-move with the eraser *)
EraserAt(x, y) ==
  LET hitCurrent == currentDrawingIdRef # None /\ Len(currentPathRef) > 0
                    /\ Hit(currentPathRef, x, y)
      idsToDelete == {drawingsRef[i].id : i \in {j \in 1..Len(drawingsRef) :
                                                  Hit(drawingsRef[j].path_points, x, y)}}
      stamped(ids) == [q \in (DOMAIN deletedDrawingsRef) \cup ids |->
                         IF q \in ids THEN now ELSE deletedDrawingsRef[q]]
      cancelLate == currentDrawingIdRef # None /\ currentDrawingIdRef \in idsToDelete
  IN /\ focusedNote = None
     /\ activeTool = "eraser"
     /\ IF hitCurrent
        THEN /\ cancelCurrentDrawingRef' = TRUE
             /\ isDrawing' = FALSE
             /\ currentPathRef' = <<>>
             /\ currentDrawingIdRef' = None
             /\ drawingsCacheRef' = CacheDelete(drawingsCacheRef, {currentDrawingIdRef})
             /\ deletedDrawingsRef' = stamped({currentDrawingIdRef})
             /\ localDrawingIdsRef' = localDrawingIdsRef \ {currentDrawingIdRef}
             /\ drawings' = SelectSeq(drawings, LAMBDA d : d.id # currentDrawingIdRef)
        ELSE /\ drawings' = SelectSeq(drawings, LAMBDA d : d.id \notin idsToDelete)
             /\ drawingsCacheRef' = CacheDelete(drawingsCacheRef, idsToDelete)
             /\ deletedDrawingsRef' = stamped(idsToDelete)
             /\ cancelCurrentDrawingRef' = IF cancelLate THEN TRUE ELSE cancelCurrentDrawingRef
             /\ isDrawing' = IF cancelLate THEN FALSE ELSE isDrawing
             /\ currentPathRef' = IF cancelLate THEN <<>> ELSE currentPathRef
             /\ currentDrawingIdRef' = IF cancelLate THEN None ELSE currentDrawingIdRef
             /\ UNCHANGED localDrawingIdsRef
     /\ drawingsRef' = drawings'
     /\ drawingDeletes' = IF hitCurrent THEN drawingDeletes
                          ELSE drawingDeletes \cup idsToDelete
     /\ UNCHANGED <<now, noteVars, dragVars, histVars, lastDrawingEndRef,
                    touchDrawingActiveRef, drawingSaves, envVars, usedIds, unsavedNotes,
                    noteDeletes, lastOrientation, boardVars, activeTool, runs>>

(* clearAllDrawings, confirmed by the user *)
ClearAllDrawings ==
  LET ids == Ids(drawingsRef) IN
  /\ focusedNote = None
  /\ ids # {}
  /\ deletedDrawingsRef' = [q \in (DOMAIN deletedDrawingsRef) \cup ids |->
                              IF q \in ids THEN now ELSE deletedDrawingsRef[q]]
  /\ drawingsCacheRef' = <<>>
  /\ drawings' = <<>>
  /\ drawingsRef' = <<>>
  /\ drawingDeletes' = IF isOffline THEN drawingDeletes ELSE drawingDeletes \cup ids
  /\ UNCHANGED <<now, noteVars, dragVars, histVars, isDrawing, currentPathRef,
                 currentDrawingIdRef, cancelCurrentDrawingRef, localDrawingIdsRef,
                 lastDrawingEndRef, touchDrawingActiveRef, drawingSaves, envVars, usedIds,
                 unsavedNotes, noteDeletes, lastOrientation, boardVars, activeTool, runs>>

(***************************************************************************)
(* Reconciliation                                                          *)
(***************************************************************************)
(* The part of fetchDrawingsOnce that runs after the fetch has resolved    *)
(* with the row list raw (lines 451-494), as a function of what it reads.  *)
DrawingsMerge(current, cache, deleted, localIds, currentId, raw, t) ==
  LET data == [i \in 1..Len(raw) |-> normalizeDrawing(raw[i])]
      hasNew == \E i \in 1..Len(data) : data[i].freshness = "new"
      currentIds == Ids(current)
      incomingIds == Ids(data)
      idsChanged == Cardinality(currentIds) # Cardinality(incomingIds)
                    \/ \E id \in incomingIds : id \notin currentIds
      live == ExpireTombstones(deleted, t)
      pruned == SelectSeq(cache, LAMBDA e : e.id \in incomingIds \/ e.id \in localIds
                                            \/ e.id = currentId)
      folds(d) == d.id \notin DOMAIN live /\ d.id \notin localIds /\ ~IsLock(d.status)
      Fold[i \in 0..Len(data)] ==
        IF i = 0 THEN pruned
        ELSE IF folds(data[i]) THEN CacheSet(Fold[i - 1], data[i].id, data[i], t)
        ELSE Fold[i - 1]
      folded == Fold[Len(data)]
      recent == SelectSeq(folded, LAMBDA e : (t - e.lastSeen) < CacheWindow
                                             \/ e.drawing.id = currentId)
      merged == [i \in 1..Len(recent) |-> recent[i].drawing]
      changed == Len(merged) # Len(current)
                 \/ \E i \in 1..Len(merged) :
                      LET prev == MapGet(current, merged[i].id) IN
                      drawingSignature(merged[i]) #
                        drawingSignature(IF prev.id = Null THEN merged[i] ELSE prev)
  IN [skipped |-> ~hasNew /\ ~idsChanged,
      deleted |-> live,
      cache |-> folded,
      merged |-> merged,
      changed |-> changed]

DragRecent == dragState.type # None /\ now - lastDragAtRef < DragGuard

DrawingPending == localDrawingIdsRef # {} /\ now - lastDrawingEndRef < DrawEndGuard

(* the early returns of fetchNotesOnce (lines 315-319) *)
FetchNotesGuard(offline, ready) ==
  /\ ~offline
  /\ ready
  /\ ~DrawingPending
  /\ ~DragRecent
  /\ ~(now - lastLocalNoteEditRef < EditGuard)

(* the early returns of fetchDrawingsOnce (lines 442-446) *)
FetchDrawingsGuard ==
  /\ ~isDrawing
  /\ ~DrawingPending
  /\ ~DragRecent
  /\ ~(now - lastDrawingEndRef < DrawEndGuard2)

(* let inFlight of the interval effect created as generation g *)
inFlight(g) == \E r \in runs : r.owner = "tick" /\ r.gen = g

(* what an async flow does once its notes list fetch is over: a tick goes on *)
(* to fetchDrawingsOnce, an on-load call is finished                         *)
AfterNotes(r) ==
  IF r.owner = "tick" /\ FetchDrawingsGuard
  THEN (runs \ {r}) \cup {[r EXCEPT !.coll = "drawings"]}
  ELSE runs \ {r}

(* the interval callback tick() up to its first pending fetch *)
TickStart ==
  /\ ~isOffline
  /\ whiteboardReady
  /\ ~DragRecent
  /\ ~DrawingPending
  /\ ~inFlight(effectGen)
  /\ runs' = IF FetchNotesGuard(isOffline, whiteboardReady)
             THEN runs \cup {[owner |-> "tick", gen |-> effectGen, coll |-> "notes"]}
             ELSE IF FetchDrawingsGuard
             THEN runs \cup {[owner |-> "tick", gen |-> effectGen, coll |-> "drawings"]}
             ELSE runs
  /\ UNCHANGED <<now, noteVars, dragVars, histVars, drawVars, envVars, usedIds, writeVars,
                 activeTool>>

(* a fetchNotesOnce without the early return of line 341 *)
NotesResolveAlways(r, data) ==
  LET m == NotesMerge(notesRef, deletedNotesRef, dirtyNotesRef, data, now) IN
  /\ r \in runs
  /\ r.coll = "notes"
  /\ deletedNotesRef' = m.deleted
  /\ highestZIndex' = m.maxZ
  /\ notes' = IF m.changed THEN m.nextNotes ELSE notes
  /\ runs' = AfterNotes(r)
  /\ UNCHANGED <<now, notesRef, dirtyNotesRef, lastLocalNoteEditRef, pendingNoteSaveIdRef,
                 saveTimers, selectedNoteIds, focusedNote, dragVars, histVars, drawVars,
                 envVars, usedIds, writeVars, activeTool>>

(* fetchNotesOnce after its fetch resolved with the rows data *)
NotesResolve(r, data) ==
  LET m == NotesMerge(notesRef, deletedNotesRef, dirtyNotesRef, data, now) IN
  /\ r \in runs
  /\ r.coll = "notes"
  /\ deletedNotesRef' = m.deleted
  /\ highestZIndex' = IF m.skipped THEN highestZIndex ELSE m.maxZ
  /\ notes' = IF ~m.skipped /\ m.changed THEN m.nextNotes ELSE notes
  /\ runs' = AfterNotes(r)
  /\ UNCHANGED <<now, notesRef, dirtyNotesRef, lastLocalNoteEditRef, pendingNoteSaveIdRef,
                 saveTimers, selectedNoteIds, focusedNote, dragVars, histVars, drawVars,
                 envVars, usedIds, writeVars, activeTool>>

(* a failed notes fetch that emptied the store *)
NotesFailClears(r) ==
  /\ r \in runs
  /\ r.coll = "notes"
  /\ runs' = AfterNotes(r)
  /\ notes' = <<>>
  /\ UNCHANGED <<now, notesRef, dirtyNotesRef, deletedNotesRef, highestZIndex,
                 lastLocalNoteEditRef, pendingNoteSaveIdRef, saveTimers, selectedNoteIds,
                 focusedNote, dragVars, histVars, drawVars, envVars, usedIds, writeVars,
                 activeTool>>

(* fetchNotesOnce after its fetch failed: the catch block *)
NotesFail(r) ==
  /\ r \in runs
  /\ r.coll = "notes"
  /\ runs' = AfterNotes(r)
  /\ UNCHANGED <<now, noteVars, dragVars, histVars, drawVars, envVars, usedIds, writeVars,
                 activeTool>>

(* fetchDrawingsOnce after its fetch resolved with the rows raw *)
DrawingsResolve(r, raw) ==
  LET m == DrawingsMerge(drawingsRef, drawingsCacheRef, deletedDrawingsRef,
                         localDrawingIdsRef, currentDrawingIdRef, raw, now)
  IN /\ r \in runs
     /\ r.coll = "drawings"
     /\ deletedDrawingsRef' = IF m.skipped THEN deletedDrawingsRef ELSE m.deleted
     /\ drawingsCacheRef' = IF m.skipped THEN drawingsCacheRef ELSE m.cache
     /\ drawings' = IF ~m.skipped /\ m.changed THEN m.merged ELSE drawings
     /\ runs' = runs \ {r}
     /\ UNCHANGED <<now, noteVars, dragVars, histVars, drawingsRef, isDrawing, currentPathRef,
                    currentDrawingIdRef, cancelCurrentDrawingRef, localDrawingIdsRef,
                    lastDrawingEndRef, touchDrawingActiveRef, drawingSaves, envVars,
                    usedIds, writeVars, activeTool>>

DrawingsFail(r) ==
  /\ r \in runs
  /\ r.coll = "drawings"
  /\ runs' = runs \ {r}
  /\ UNCHANGED <<now, noteVars, dragVars, histVars, drawVars, envVars, usedIds, writeVars,
                 activeTool>>

(* a commit of the pending store updates and its passive effects: the mirrors *)
(* notesRef and drawingsRef catch up with the stores                          *)
Render ==
  /\ notesRef # notes \/ drawingsRef # drawings
  /\ notesRef' = notes
  /\ drawingsRef' = drawings
  /\ focusedNote' = FocusAfterRender(notes)
  /\ UNCHANGED <<now, notes, dirtyNotesRef, deletedNotesRef, highestZIndex,
                 lastLocalNoteEditRef, pendingNoteSaveIdRef, saveTimers, selectedNoteIds,
                 dragVars, histVars, drawings, isDrawing, currentPathRef, currentDrawingIdRef,
                 cancelCurrentDrawingRef, drawingsCacheRef, deletedDrawingsRef,
                 localDrawingIdsRef, lastDrawingEndRef, touchDrawingActiveRef, drawingSaves,
                 envVars, usedIds, writeVars, activeTool, runs>>

(* time passes; a pending save timer fires before time passes its due time, *)
(* and a pending commit is rendered before any time step passes            *)
AdvanceTime(d, limit) ==
  LET dues == {saveTimers[q].due : q \in DOMAIN saveTimers}
      target == IF dues = {} THEN now + d
                ELSE IF SetMin(dues) < now + d THEN SetMin(dues) ELSE now + d
  IN /\ \A q \in DOMAIN saveTimers : saveTimers[q].due > now
     /\ notesRef = notes
     /\ drawingsRef = drawings
     /\ target <= limit
     /\ now' = target
     /\ UNCHANGED <<noteVars, dragVars, histVars, drawVars, envVars, usedIds, writeVars,
                    activeTool, runs>>

(***************************************************************************)
(* Environment of the fetch callbacks and of the interval effect           *)
(***************************************************************************)
(* ensureWhiteboardExists completes: whiteboardReady becomes true, the      *)
(* callbacks and the interval effect are re-created and the on-load effect  *)
(* calls fetchNotesOnce                                                     *)
EnsureWhiteboardDone ==
  /\ ensurePending
  /\ \E id \in boardChecks :
       /\ boardChecks' = boardChecks \ {id}
       /\ boardsChecked' = boardsChecked \cup {id}
  /\ ensurePending' = (boardChecks' # {})
  /\ whiteboardReady' = TRUE
  /\ effectGen' = effectGen + 1
  /\ runs' = IF FetchNotesGuard(isOffline, TRUE)
             THEN runs \cup {[owner |-> "load", gen |-> effectGen + 1, coll |-> "notes"]}
             ELSE runs
  /\ UNCHANGED <<now, noteVars, dragVars, histVars, drawVars, isOffline, usedIds,
                 unsavedNotes, noteDeletes, drawingDeletes, lastOrientation,
                 effectiveWhiteboardId, activeTool>>

(* the list of the user's boards arrives and names another id than the     *)
(* default: setEffectiveWhiteboardId re-creates the callbacks and re-runs   *)
(* ensureWhiteboardExists for the new id                                    *)
BoardIdLoaded(id) ==
  /\ effectiveWhiteboardId = WHITEBOARD_ID
  /\ id # WHITEBOARD_ID
  /\ effectiveWhiteboardId' = id
  /\ effectGen' = effectGen + 1
  /\ whiteboardReady' = IF isOffline THEN whiteboardReady ELSE FALSE
  /\ ensurePending' = IF isOffline THEN ensurePending ELSE TRUE
  /\ boardChecks' = IF isOffline THEN boardChecks ELSE boardChecks \cup {id}
  /\ UNCHANGED <<now, noteVars, dragVars, histVars, drawVars, isOffline, usedIds,
                 unsavedNotes, noteDeletes, drawingDeletes, lastOrientation, boardsChecked,
                 activeTool, runs>>

(* the isOffline prop changes.  Going online re-runs ensureWhiteboardExists  *)
(* (whiteboardReady is reset) after the on-load effect of the same commit    *)
(* has called fetchNotesOnce with the values of that commit                  *)
SetOffline(offline) ==
  /\ offline # isOffline
  /\ isOffline' = offline
  /\ effectGen' = effectGen + 1
  /\ whiteboardReady' = IF offline THEN whiteboardReady ELSE FALSE
  /\ ensurePending' = IF offline THEN ensurePending ELSE TRUE
  /\ boardChecks' = IF offline THEN boardChecks ELSE boardChecks \cup {effectiveWhiteboardId}
  /\ runs' = IF FetchNotesGuard(offline, whiteboardReady)
             THEN runs \cup {[owner |-> "load", gen |-> effectGen + 1, coll |-> "notes"]}
             ELSE runs
  /\ UNCHANGED <<now, noteVars, dragVars, histVars, drawVars, usedIds, unsavedNotes,
                 noteDeletes, drawingDeletes, lastOrientation, effectiveWhiteboardId,
                 boardsChecked, activeTool>>

(***************************************************************************)
(* Inputs and bounds                                                       *)
(***************************************************************************)
Epoch == 2 * TombstoneWindow

MaxZ == 11
MaxHistory == 1
MaxPath == 2
MaxFont == 18
MaxStyle == 2
MaxGen == 4
MaxTouch == 3
TimeBudget == 400

ShortStep == SaveDelay

LongStep == TombstoneWindow + SaveDelay

NoteRow(id, v) ==
  [id |-> id, type |-> "sticky", x |-> 180, y |-> 100, width |-> 256, height |-> 256,
   rotation |-> 0, z_index |-> 10, color |-> "yellow", content |-> "r",
   title |-> "New Note", image_url |-> Null, font_size |-> 16, created_at |-> 1,
   updated_at |-> "t1", status |-> v.status, freshness |-> v.freshness,
   freshness_status |-> Null]

Absent == [absent |-> TRUE]

Plain == [absent |-> FALSE, status |-> Null, freshness |-> Null]

(* what the backend may hold of a note: nothing, a row, a row marked new, a *)
(* row marked new and locked by another client                             *)
Fresh == [Plain EXCEPT !.freshness = "new"]

Locked == [Plain EXCEPT !.freshness = "new", !.status = "grabbing"]

StrokeRow(id, v) ==
  [id |-> id, path_points |-> <<[x |-> 0, y |-> 0], [x |-> 40, y |-> 0]>>,
   color |-> "black", updated_at |-> "t1", status |-> v.status,
   freshness |-> v.freshness, freshness_status |-> Null]

(* the row lists the backend may answer with: at most one row for each id of *)
(* the sequence order, in that order, each in one of the given variants      *)
SnapshotOf(order, f, Row(_, _)) ==
  LET Build[i \in 0..Len(order)] ==
        IF i = 0 THEN <<>>
        ELSE IF f[order[i]].absent THEN Build[i - 1]
        ELSE Append(Build[i - 1], Row(order[i], f[order[i]]))
  IN Build[Len(order)]

Snapshots(order, variants, Row(_, _)) ==
  {SnapshotOf(order, f, Row) : f \in [{order[i] : i \in 1..Len(order)} -> variants]}

NoteSnapshots(order, variants) == Snapshots(order, variants, NoteRow)

StrokeSnapshots(order, variants) == Snapshots(order, variants, StrokeRow)

(***************************************************************************)
(* The backend: handleWhiteboardApi over the tables of the data store.     *)
(* A request runs from one await of sbFetch to the next; the requests of   *)
(* the worker interleave at the awaits.                                    *)
(***************************************************************************)
UserIds == {"u1", "u2"}

(* the ids crypto.randomUUID() returns                                      *)
BoardUuids == {"b2", "b3"}

Tables == {"whiteboard_notes", "whiteboard_drawings"}

RowIds == {"r1"}

Bodies == {"a", "b"}

MaxRequests == 2

Slots == 1..MaxRequests

Idle == [pc |-> "idle"]

(* the rows of whiteboards with user_id = eq.<user>, order = created_at.asc *)
BoardsOf(user) == SelectSeq(whiteboards, LAMBDA b : b.user_id = user)

(* what a list request of the user answers once it has resolved the board: *)
(* the rows with whiteboard_id = eq.<board>                                *)
RowsOfBoard(t, board) ==
  {[id |-> id, row |-> sbRows[t][id]] : id \in {i \in DOMAIN sbRows[t] : sbRows[t][i].whiteboard_id = board}}

(* the handler up to its first backend call: the token is valid, the       *)
(* profile exists, a PUT carries an id and a body with the required field  *)
HandleWhiteboardApi(user, method, t, id, body) ==
  /\ \E s \in Slots :
       /\ requests[s] = Idle
       /\ \A q \in Slots : q < s => requests[q] # Idle
       /\ requests' = [requests EXCEPT ![s] =
            [pc |-> IF method = "DELETE" THEN "delete" ELSE "boards",
             user_id |-> user, method |-> method, table |-> t,
             id |-> IF method = "GET" THEN None ELSE id,
             body |-> IF method = "PUT" THEN body ELSE None,
             boardId |-> None]]
  /\ UNCHANGED <<whiteboards, sbRows, clientVars>>

(* getOrCreateBoardId: the list of the user's boards has arrived           *)
GetBoards(s) ==
  /\ requests[s].pc = "boards"
  /\ LET q == requests[s]
         boards == BoardsOf(q.user_id)
     IN requests' = [requests EXCEPT ![s] =
          IF Len(boards) > 0
          THEN [q EXCEPT !.pc = IF q.method = "GET" THEN "rows" ELSE "upsert",
                         !.boardId = boards[1].id]
          ELSE [q EXCEPT !.pc = "create"]]
  /\ UNCHANGED <<whiteboards, sbRows, clientVars>>

(* getOrCreateBoardId: no board was listed, a row with a new id is posted  *)
CreateBoard(s, newId) ==
  /\ requests[s].pc = "create"
  /\ \A i \in 1..Len(whiteboards) : whiteboards[i].id # newId
  /\ whiteboards' = Append(whiteboards, [id |-> newId, user_id |-> requests[s].user_id])
  /\ requests' = [requests EXCEPT ![s] =
       [@ EXCEPT !.pc = IF requests[s].method = "GET" THEN "rows" ELSE "upsert",
                 !.boardId = newId]]
  /\ UNCHANGED <<sbRows, clientVars>>

(* the list GET: the rows of the resolved board are answered               *)
GetRows(s) ==
  /\ requests[s].pc = "rows"
  /\ requests' = [requests EXCEPT ![s] = Idle]
  /\ UNCHANGED <<whiteboards, sbRows, clientVars>>

(* the PUT: POST ?on_conflict=id with resolution=merge-duplicates inserts  *)
(* the row or overwrites the row of that id                                *)
UpsertRow(s) ==
  /\ requests[s].pc = "upsert"
  /\ LET q == requests[s]
         row == [whiteboard_id |-> q.boardId, user_id |-> q.user_id, body |-> q.body]
     IN sbRows' = [sbRows EXCEPT ![q.table] =
          [i \in DOMAIN @ \cup {q.id} |-> IF i = q.id THEN row ELSE @[i]]]
  /\ requests' = [requests EXCEPT ![s] = Idle]
  /\ UNCHANGED <<whiteboards, clientVars>>

(* the DELETE: DELETE ?id=eq.<id>                                          *)
DeleteRow(s) ==
  /\ requests[s].pc = "delete"
  /\ LET q == requests[s]
     IN sbRows' = [sbRows EXCEPT ![q.table] = [i \in DOMAIN @ \ {q.id} |-> @[i]]]
  /\ requests' = [requests EXCEPT ![s] = Idle]
  /\ UNCHANGED <<whiteboards, clientVars>>

(***************************************************************************)
(* The notes machine: a ready, online board                                *)
(***************************************************************************)
InitReady ==
  /\ now = Epoch
  /\ notes = <<>>
  /\ notesRef = <<>>
  /\ dirtyNotesRef = {}
  /\ deletedNotesRef = EmptyMap
  /\ highestZIndex = BaseZIndex
  /\ lastLocalNoteEditRef = 0
  /\ lastDragAtRef = 0
  /\ dragState = NoDrag
  /\ pendingNoteSaveIdRef = None
  /\ saveTimers = EmptyMap
  /\ selectedNoteIds = {}
  /\ focusedNote = None
  /\ usedIds = {}
  /\ unsavedNotes = EmptyMap
  /\ noteDeletes = {}
  /\ drawingDeletes = {}
  /\ lastOrientation = "landscape"
  /\ effectiveWhiteboardId = WHITEBOARD_ID
  /\ boardChecks = {}
  /\ boardsChecked = {WHITEBOARD_ID}
  /\ deleteSelectedSeen = [offline |-> FALSE, ready |-> TRUE]
  /\ activeTool = "select"
  /\ history = <<>>
  /\ future = <<>>
  /\ drawings = <<>>
  /\ drawingsRef = <<>>
  /\ isDrawing = FALSE
  /\ currentPathRef = <<>>
  /\ currentDrawingIdRef = None
  /\ cancelCurrentDrawingRef = FALSE
  /\ drawingsCacheRef = <<>>
  /\ deletedDrawingsRef = EmptyMap
  /\ localDrawingIdsRef = {}
  /\ lastDrawingEndRef = 0
  /\ touchDrawingActiveRef = FALSE
  /\ drawingSaves = {}
  /\ runs = {}
  /\ effectGen = 1
  /\ whiteboardReady = TRUE
  /\ isOffline = FALSE
  /\ ensurePending = FALSE
  /\ lastMerge = NoMerge
  /\ whiteboards = <<[id |-> "b1", user_id |-> "u0"]>>
  /\ sbRows = [t \in Tables |-> EmptyMap]
  /\ requests = [s \in Slots |-> Idle]

(* the history variable: left alone, reset by a local operation, set by the *)
(* merge of a collection                                                   *)
(* the render that follows a step: useCallback re-creates deleteSelected,   *)
(* and with it the deleteNoteFromDb it calls, when selectedNoteIds or notes *)
(* changed                                                                  *)
Memo ==
  deleteSelectedSeen' =
    IF notes' # notes \/ selectedNoteIds' # selectedNoteIds
    THEN [offline |-> isOffline', ready |-> whiteboardReady']
    ELSE deleteSelectedSeen

(* a step of the component: the tables of the backend are reached only by  *)
(* the requests the worker serves                                           *)
Component == Memo /\ UNCHANGED serverVars

Quiet == UNCHANGED lastMerge /\ Component

Local == lastMerge' = NoMerge /\ Component

SameRows(last, rows) == last.valid /\ last.data = rows

NotesMerged(data) ==
  lastMerge' = [lastMerge EXCEPT !.notes = [valid |-> TRUE, data |-> data]] /\ Component

DrawingsMerged(raw) ==
  lastMerge' = [lastMerge EXCEPT !.drawings = [valid |-> TRUE, data |-> raw]] /\ Component

(* time passes in short steps within TimeBudget of the start and of the long *)
(* step                                                                      *)
ShortPass ==
  AdvanceTime(ShortStep, IF now < Epoch + LongStep THEN Epoch + TimeBudget
                         ELSE Epoch + LongStep + TimeBudget)

(* once, time passes in a step longer than every window of the component,   *)
(* no fetch outstanding                                                     *)
LongPass ==
  /\ now <= Epoch + TimeBudget
  /\ runs = {}
  /\ AdvanceTime(LongStep, Epoch + LongStep + TimeBudget)

(***************************************************************************)
(* Deleting, restoring and editing notes of a board shared with another    *)
(* client: the local user acts on n1, the other client owns n2             *)
(***************************************************************************)
NextUndo ==
  \/ \E id \in {"n1"} : highestZIndex < MaxZ /\ FocusNote(id) /\ Quiet
  \/ BlurNote /\ Quiet
  \/ Len(history) < MaxHistory /\ DeleteSelected /\ Quiet
  \/ Undo /\ Quiet
  \/ TickStart /\ Quiet
  \/ \E r \in runs, data \in NoteSnapshots(<<"n1", "n2">>, {Absent, Plain}) :
       NotesResolve(r, data) /\ Quiet
  \/ \E r \in runs : DrawingsResolve(r, <<>>) /\ Quiet
  \/ Render /\ Quiet
  \/ LongPass /\ Quiet

SpecUndo == InitReady /\ [][NextUndo]_vars

(***************************************************************************)
(* Drawing and erasing strokes on a board shared with another client: the  *)
(* local user draws s1, the other client owns s2                           *)
(***************************************************************************)
NextDraw ==
  \/ \E tool \in {"pen", "eraser"} : HandleToolChange(tool) /\ Quiet
  \/ PenPointerDown("s1", [x |-> 0, y |-> 0]) /\ Quiet
  \/ Len(currentPathRef) < MaxPath /\ PointerMoveDraw([x |-> 40, y |-> 0]) /\ Quiet
  \/ FinishPointerInteraction /\ Quiet
  \/ \E req \in drawingSaves : SaveDrawingDone(req) /\ Quiet
  \/ \E req \in drawingSaves : SaveDrawingFail(req) /\ Quiet
  \/ EraserAt(40, 0) /\ Quiet
  \/ ClearAllDrawings /\ Quiet
  \/ TickStart /\ Quiet
  \/ \E r \in runs : NotesResolve(r, <<>>) /\ Quiet
  \/ \E r \in runs, raw \in StrokeSnapshots(<<"s1", "s2">>, {Absent, Plain, Locked}) :
       DrawingsResolve(r, raw) /\ Quiet
  \/ Render /\ Quiet
  \/ ShortPass /\ Quiet
  \/ LongPass /\ Quiet

SpecDraw == InitReady /\ [][NextDraw]_vars

(***************************************************************************)
(* Deleting notes and erasing strokes that the backend still returns       *)
(***************************************************************************)
NextDelete ==
  \/ \E id \in {"n1"} : highestZIndex < MaxZ /\ FocusNote(id) /\ Local
  \/ BlurNote /\ Local
  \/ Len(history) < MaxHistory /\ DeleteSelected /\ Local
  \/ Undo /\ Local
  \/ HandleToolChange("eraser") /\ Local
  \/ EraserAt(40, 0) /\ Local
  \/ ClearAllDrawings /\ Local
  \/ TickStart /\ Quiet
  \/ \E r \in runs, data \in NoteSnapshots(<<"n1">>, {Absent, Plain}) :
       NotesResolve(r, data) /\ NotesMerged(data)
  \/ \E r \in runs, raw \in StrokeSnapshots(<<"s1">>, {Absent, Plain}) :
       DrawingsResolve(r, raw) /\ DrawingsMerged(raw)
  \/ Render /\ Quiet
  \/ LongPass /\ Quiet

SpecDelete == InitReady /\ [][NextDelete]_vars

(***************************************************************************)
(* A long editing session on one note, with undo and redo                  *)
(***************************************************************************)
NextHist ==
  \/ SetActiveTool("note") /\ Quiet
  \/ AddNote("n1", 228, 228, 0) /\ Quiet
  \/ UpdateNoteColor("blue") /\ Quiet
  \/ Undo /\ Quiet
  \/ Redo /\ Quiet

SpecHist == InitReady /\ [][NextHist]_vars

(***************************************************************************)
(* Restyling and retyping one note, with undo and redo                     *)
(***************************************************************************)
NextStyle ==
  \/ TickStart /\ Quiet
  \/ \E r \in runs, data \in NoteSnapshots(<<"n1">>, {Plain}) : NotesResolve(r, data) /\ Quiet
  \/ \E r \in runs : DrawingsResolve(r, <<>>) /\ Quiet
  \/ Render /\ Quiet
  \/ highestZIndex < MaxZ /\ FocusNote("n1") /\ Quiet
  \/ UpdateNoteContent("a") /\ Quiet
  \/ BlurNote /\ Quiet
  \/ Len(history) < MaxStyle /\ UpdateNoteColor("blue") /\ Quiet
  \/ (\A i \in 1..Len(notes) : notes[i].fontSize < MaxFont) /\ UpdateNoteFontSize(2) /\ Quiet
  \/ Undo /\ Quiet
  \/ Redo /\ Quiet

SpecStyle == InitReady /\ [][NextStyle]_vars

(***************************************************************************)
(* The connection comes and goes while the interval keeps ticking          *)
(***************************************************************************)
NextTick ==
  \/ \E offline \in BOOLEAN : effectGen < MaxGen /\ SetOffline(offline) /\ Quiet
  \/ EnsureWhiteboardDone /\ Quiet
  \/ TickStart /\ Quiet
  \/ \E r \in runs, data \in NoteSnapshots(<<"n1">>, {Absent, Plain}) :
       NotesResolve(r, data) /\ Quiet
  \/ \E r \in runs : NotesFail(r) /\ Quiet
  \/ \E r \in runs, raw \in StrokeSnapshots(<<"s1">>, {Absent, Plain}) :
       DrawingsResolve(r, raw) /\ Quiet
  \/ \E r \in runs : DrawingsFail(r) /\ Quiet
  \/ Render /\ Quiet

SpecTick == InitReady /\ [][NextTick]_vars

(***************************************************************************)
(* One stroke from pointer-down or touch-start to the end of the gesture   *)
(***************************************************************************)
NextStroke ==
  \/ HandleToolChange("pen") /\ Quiet
  \/ PenPointerDown("s1", [x |-> 0, y |-> 0]) /\ Quiet
  \/ TouchStart("s2", [x |-> 0, y |-> 0]) /\ Quiet
  \/ Len(currentPathRef) < MaxPath /\ PointerMoveDraw([x |-> 40, y |-> 0]) /\ Quiet
  \/ Len(currentPathRef) < MaxPath /\ TouchMove([x |-> 40, y |-> 0]) /\ Quiet
  \/ FinishPointerInteraction /\ Quiet
  \/ FinishAgain /\ Quiet
  \/ \E req \in drawingSaves : SaveDrawingDone(req) /\ Quiet
  \/ \E req \in drawingSaves : SaveDrawingFail(req) /\ Quiet
  \/ ShortPass /\ Quiet

SpecStroke == InitReady /\ [][NextStroke]_vars

(***************************************************************************)
(* Changing the tool in the middle of a stroke                             *)
(***************************************************************************)
NextSwitch ==
  \/ \E tool \in {"pen", "eraser"} : HandleToolChange(tool) /\ Quiet
  \/ \E tool \in {"select", "hand"} : SetActiveTool(tool) /\ Quiet
  \/ PenPointerDown("s1", [x |-> 0, y |-> 0]) /\ Quiet
  \/ Len(currentPathRef) < MaxPath /\ PointerMoveDraw([x |-> 40, y |-> 0]) /\ Quiet
  \/ FinishPointerInteraction /\ Quiet
  \/ \E req \in drawingSaves : SaveDrawingDone(req) /\ Quiet
  \/ TickStart /\ Quiet
  \/ \E r \in runs : NotesResolve(r, <<>>) /\ Quiet
  \/ \E r \in runs, raw \in StrokeSnapshots(<<"s1">>, {Absent, Locked}) :
       DrawingsResolve(r, raw) /\ Quiet
  \/ Render /\ Quiet
  \/ ShortPass /\ Quiet

SpecSwitch == InitReady /\ [][NextSwitch]_vars

(***************************************************************************)
(* A stroke just finished and the next polls                               *)
(***************************************************************************)
(* time passes until the drawing guard of fetchDrawingsOnce has lapsed *)
MidPass == AdvanceTime(DrawEndGuard2, Epoch + DrawEndGuard2 + TimeBudget)

NextRecent ==
  \/ HandleToolChange("pen") /\ Quiet
  \/ PenPointerDown("s1", [x |-> 0, y |-> 0]) /\ Quiet
  \/ TouchStart("s2", [x |-> 0, y |-> 0]) /\ Quiet
  \/ Len(currentPathRef) < MaxPath /\ PointerMoveDraw([x |-> 40, y |-> 0]) /\ Quiet
  \/ Len(currentPathRef) < MaxPath /\ TouchMove([x |-> 40, y |-> 0]) /\ Quiet
  \/ FinishPointerInteraction /\ Quiet
  \/ \E req \in drawingSaves : SaveDrawingDone(req) /\ Quiet
  \/ TickStart /\ Quiet
  \/ \E r \in runs : NotesResolve(r, <<>>) /\ Quiet
  \/ \E r \in runs, raw \in StrokeSnapshots(<<"s1">>, {Absent, Plain}) :
       DrawingsResolve(r, raw) /\ Quiet
  \/ Render /\ Quiet
  \/ MidPass /\ Quiet

SpecRecent == InitReady /\ [][NextRecent]_vars

(***************************************************************************)
(* Creating notes, online and offline                                      *)
(***************************************************************************)
NextAdd ==
  \/ \E tool \in {"note", "text", "select"} : SetActiveTool(tool) /\ Quiet
  \/ \E id \in NoteIds, x \in {-1, 228, 1921} :
       highestZIndex < MaxZ + 1 /\ Len(history) < MaxStyle /\ AddNote(id, x, 228, 0) /\ Quiet
  \/ \E id \in NoteIds : NoteSaveDone(id) /\ Quiet
  \/ \E id \in NoteIds : NoteSaveFail(id) /\ Quiet
  \/ \E offline \in BOOLEAN : effectGen < MaxGen /\ SetOffline(offline) /\ Quiet
  \/ Len(history) < MaxStyle /\ UpdateNoteColor("blue") /\ Quiet
  \/ \E id \in NoteIds : SaveTimerFire(id) /\ Quiet
  \/ TickStart /\ Quiet
  \/ ShortPass /\ Quiet

SpecAdd == InitReady /\ [][NextAdd]_vars

(***************************************************************************)
(* Polls that fail                                                         *)
(***************************************************************************)
NextFail ==
  \/ highestZIndex < MaxZ /\ FocusNote("n1") /\ Quiet
  \/ BlurNote /\ Quiet
  \/ Len(history) < MaxHistory /\ DeleteSelected /\ Quiet
  \/ HandleToolChange("eraser") /\ Quiet
  \/ EraserAt(40, 0) /\ Quiet
  \/ TickStart /\ Quiet
  \/ \E r \in runs, data \in NoteSnapshots(<<"n1">>, {Plain}) : NotesResolve(r, data) /\ Quiet
  \/ \E r \in runs : NotesFail(r) /\ Quiet
  \/ \E r \in runs, raw \in StrokeSnapshots(<<"s1", "s2">>, {Absent, Plain}) :
       DrawingsResolve(r, raw) /\ Quiet
  \/ \E r \in runs : DrawingsFail(r) /\ Quiet
  \/ Render /\ Quiet
  \/ ShortPass /\ Quiet

SpecFail == InitReady /\ [][NextFail]_vars

(***************************************************************************)
(* Typing into two notes: the debounced saves                              *)
(***************************************************************************)
(* time passes in steps shorter than the debounce delay *)
HalfPass == AdvanceTime(SaveDelay \div 2, Epoch + 2 * TimeBudget)

NextDebounce ==
  \/ TickStart /\ Quiet
  \/ \E r \in runs, data \in NoteSnapshots(<<"n1", "n2">>, {Plain}) :
       NotesResolve(r, data) /\ Quiet
  \/ \E r \in runs : DrawingsResolve(r, <<>>) /\ Quiet
  \/ Render /\ Quiet
  \/ \E id \in NoteIds : highestZIndex < BaseZIndex + MaxTouch /\ FocusNote(id) /\ Quiet
  \/ BlurNote /\ Quiet
  \/ \E content \in {"a", "b"} : UpdateNoteContent(content) /\ Quiet
  \/ \E id \in NoteIds : SaveTimerFire(id) /\ Quiet
  \/ HalfPass /\ Quiet

SpecDebounce == InitReady /\ [][NextDebounce]_vars

(***************************************************************************)
(* Creating, locking and deleting notes while the connection comes and goes *)
(***************************************************************************)
NextWrite ==
  \/ TickStart /\ Quiet
  \/ \E r \in runs, data \in NoteSnapshots(<<"n1">>, {Plain}) : NotesResolve(r, data) /\ Quiet
  \/ \E r \in runs : DrawingsResolve(r, <<>>) /\ Quiet
  \/ Render /\ Quiet
  \/ \E offline \in BOOLEAN : effectGen < MaxGen /\ SetOffline(offline) /\ Quiet
  \/ EnsureWhiteboardDone /\ Quiet
  \/ SetActiveTool("note") /\ Quiet
  \/ highestZIndex < BaseZIndex + MaxTouch /\ Len(history) < MaxStyle
       /\ AddNote("n2", 228, 228, 0) /\ Quiet
  \/ highestZIndex < BaseZIndex + MaxTouch /\ Len(history) < MaxStyle
       /\ NotePointerDown("n1", [x |-> 0, y |-> 0]) /\ Quiet
  \/ FinishPointerInteraction /\ Quiet
  \/ highestZIndex < BaseZIndex + MaxTouch /\ FocusNote("n2") /\ Quiet
  \/ BlurNote /\ Quiet
  \/ Len(history) < MaxStyle /\ DeleteSelected /\ Quiet
  \/ \E id \in NoteIds : NoteDeleteDone(id) /\ Quiet
  \/ \E id \in NoteIds : NoteSaveDone(id) /\ Quiet

SpecWrite == InitReady /\ [][NextWrite]_vars

(***************************************************************************)
(* Merging snapshots of two notes into a store with local edits            *)
(***************************************************************************)
NextMerge ==
  \/ TickStart /\ Quiet
  \/ \E r \in runs, data \in NoteSnapshots(<<"n1">>, {Plain, Fresh, Locked})
                             \cup NoteSnapshots(<<"n1", "n2">>, {Fresh}) :
       NotesResolve(r, data) /\ Quiet
  \/ \E r \in runs : DrawingsResolve(r, <<>>) /\ Quiet
  \/ Render /\ Quiet
  \/ highestZIndex < MaxZ /\ FocusNote("n1") /\ Quiet
  \/ UpdateNoteContent("a") /\ Quiet
  \/ BlurNote /\ Quiet
  \/ \E id \in NoteIds : SaveTimerFire(id) /\ Quiet
  \/ ShortPass /\ Quiet

SpecMerge == InitReady /\ [][NextMerge]_vars

(***************************************************************************)
(* The user's board id arrives while the board is being checked            *)
(***************************************************************************)
NextBoard ==
  \/ BoardIdLoaded("b1") /\ Quiet
  \/ \E offline \in BOOLEAN : effectGen < MaxGen /\ SetOffline(offline) /\ Quiet
  \/ EnsureWhiteboardDone /\ Quiet
  \/ SetActiveTool("note") /\ Quiet
  \/ \E id \in NoteIds :
       highestZIndex < MaxZ + 1 /\ Len(history) < MaxStyle /\ AddNote(id, 228, 228, 0) /\ Quiet
  \/ Len(history) < MaxStyle /\ DeleteSelected /\ Quiet
  \/ \E id \in NoteIds : NoteSaveDone(id) /\ Quiet
  \/ \E id \in NoteIds : NoteDeleteDone(id) /\ Quiet
  \/ ShortPass /\ Quiet

SpecBoard == InitReady /\ [][NextBoard]_vars

(***************************************************************************)
(* Working on the board while the connection is down                       *)
(***************************************************************************)
NextOffline ==
  \/ \E offline \in BOOLEAN : effectGen < MaxGen /\ SetOffline(offline) /\ Quiet
  \/ \E tool \in {"pen", "eraser"} : HandleToolChange(tool) /\ Quiet
  \/ PenPointerDown("s1", [x |-> 0, y |-> 0]) /\ Quiet
  \/ FinishPointerInteraction /\ Quiet
  \/ EraserAt(0, 0) /\ Quiet
  \/ SetActiveTool("note") /\ Quiet
  \/ highestZIndex < MaxZ /\ AddNote("n1", 228, 228, 0) /\ Quiet
  \/ TickStart /\ Quiet
  \/ \E r \in runs : NotesResolve(r, <<>>) /\ Quiet
  \/ \E r \in runs : DrawingsResolve(r, <<>>) /\ Quiet
  \/ ShortPass /\ Quiet

SpecOffline == InitReady /\ [][NextOffline]_vars

(***************************************************************************)
(* Turning the device with notes on the board                              *)
(***************************************************************************)
NextTurn ==
  \/ \E o \in {"landscape", "portrait"} : HandleResize(o) /\ Quiet
  \/ \E tool \in {"note", "text"} : SetActiveTool(tool) /\ Quiet
  \/ highestZIndex < MaxZ /\ AddNote("n2", 228, 228, 0) /\ Quiet
  \/ NoteSaveDone("n2") /\ Quiet
  \/ TickStart /\ Quiet
  \/ \E r \in runs, data \in NoteSnapshots(<<"n1">>, {Plain}) : NotesResolve(r, data) /\ Quiet
  \/ \E r \in runs : DrawingsResolve(r, <<>>) /\ Quiet
  \/ Render /\ Quiet
  \/ ShortPass /\ Quiet

SpecTurn == InitReady /\ [][NextTurn]_vars

(***************************************************************************)
(* Polls that find the same ids as the store holds                         *)
(***************************************************************************)
NextSkip ==
  \/ TickStart /\ Quiet
  \/ \E r \in runs, data \in NoteSnapshots(<<"n1">>, {Plain, Fresh}) :
       NotesResolve(r, data) /\ NotesMerged(data)
  \/ \E r \in runs, raw \in StrokeSnapshots(<<"s1">>, {Plain, Fresh}) :
       DrawingsResolve(r, raw) /\ DrawingsMerged(raw)
  \/ Render /\ Quiet
  \/ highestZIndex < MaxZ /\ FocusNote("n1") /\ Local
  \/ UpdateNoteContent("a") /\ Local
  \/ BlurNote /\ Local
  \/ \E id \in NoteIds : SaveTimerFire(id) /\ Quiet
  \/ HandleToolChange("pen") /\ Local
  \/ PenPointerDown("s1", [x |-> 0, y |-> 0]) /\ Local
  \/ FinishPointerInteraction /\ Local
  \/ ShortPass /\ Quiet

SpecSkip == InitReady /\ [][NextSkip]_vars

(***************************************************************************)
(* Recolouring a note and moving it straight away                          *)
(***************************************************************************)
NextMove ==
  \/ TickStart /\ Quiet
  \/ \E r \in runs, data \in NoteSnapshots(<<"n1">>, {Plain}) : NotesResolve(r, data) /\ Quiet
  \/ \E r \in runs : DrawingsResolve(r, <<>>) /\ Quiet
  \/ Render /\ Quiet
  \/ highestZIndex < BaseZIndex + MaxTouch /\ Len(history) < MaxTouch
       /\ NotePointerDown("n1", [x |-> 0, y |-> 0]) /\ Quiet
  \/ PointerMoveDrag([x |-> 40, y |-> 0]) /\ Quiet
  \/ FinishPointerInteraction /\ Quiet
  \/ Len(history) < MaxTouch /\ UpdateNoteColor("blue") /\ Quiet
  \/ \E id \in NoteIds : SaveTimerFire(id) /\ Quiet
  \/ ShortPass /\ Quiet

SpecMove == InitReady /\ [][NextMove]_vars

(***************************************************************************)
(* The same rows served again and again: a note and a stroke that are      *)
(* edited, deleted and erased locally while the backend keeps returning    *)
(* them                                                                    *)
(***************************************************************************)
NextIdem ==
  \/ highestZIndex < MaxZ /\ FocusNote("n1") /\ Local
  \/ BlurNote /\ Local
  \/ Len(history) < MaxHistory /\ DeleteSelected /\ Local
  \/ HandleToolChange("eraser") /\ Local
  \/ EraserAt(40, 0) /\ Local
  \/ TickStart /\ Quiet
  \/ \E r \in runs, data \in NoteSnapshots(<<"n1">>, {Plain, Fresh}) :
       NotesResolve(r, data) /\ NotesMerged(data)
  \/ \E r \in runs, raw \in StrokeSnapshots(<<"s1">>, {Plain, Locked}) :
       DrawingsResolve(r, raw) /\ DrawingsMerged(raw)
  \/ Render /\ Quiet
  \/ ShortPass /\ Quiet
  \/ LongPass /\ Quiet

SpecIdem == InitReady /\ [][NextIdem]_vars

(***************************************************************************)
(* Dragging a note that the backend returns in several variants            *)
(***************************************************************************)
NextDrag ==
  \/ \E id \in {"n1"} : highestZIndex < MaxZ /\ Len(history) < MaxHistory
                          /\ NotePointerDown(id, [x |-> 0, y |-> 0]) /\ Quiet
  \/ PointerMoveDrag([x |-> 40, y |-> 0]) /\ Quiet
  \/ FinishPointerInteraction /\ Quiet
  \/ TickStart /\ Quiet
  \/ \E r \in runs, data \in NoteSnapshots(<<"n1">>, {Absent, Plain, Fresh})
                                   \cup NoteSnapshots(<<"n1", "n2">>, {Locked}) :
       NotesResolve(r, data) /\ Quiet
  \/ \E r \in runs : DrawingsResolve(r, <<>>) /\ Quiet
  \/ Render /\ Quiet
  \/ ShortPass /\ Quiet
  \/ LongPass /\ Quiet

SpecDrag == InitReady /\ [][NextDrag]_vars

(***************************************************************************)
(* Creating a note and editing its text and font size                      *)
(***************************************************************************)
NextEdit ==
  \/ \E tool \in {"note", "select"} : SetActiveTool(tool) /\ Quiet
  \/ highestZIndex < MaxZ /\ Len(history) < MaxHistory /\ AddNote("n1", 228, 228, 0) /\ Quiet
  \/ NoteSaveDone("n1") /\ Quiet
  \/ highestZIndex < MaxZ /\ FocusNote("n1") /\ Quiet
  \/ BlurNote /\ Quiet
  \/ UpdateNoteContent("a") /\ Quiet
  \/ \E id \in NoteIds : SaveTimerFire(id) /\ Quiet
  \/ TickStart /\ Quiet
  \/ \E r \in runs, data \in NoteSnapshots(<<"n1">>, {Absent, Plain, Fresh}) :
       NotesResolve(r, data) /\ Quiet
  \/ \E r \in runs : DrawingsResolve(r, <<>>) /\ Quiet
  \/ Render /\ Quiet
  \/ ShortPass /\ Quiet
  \/ LongPass /\ Quiet

SpecEdit == InitReady /\ [][NextEdit]_vars

(***************************************************************************)
(* Properties                                                              *)
(***************************************************************************)
AllNoteSnapshots == NoteSnapshots(<<"n1", "n2">>, {Absent, Plain, Fresh, Locked})

(* the row of the snapshot data differs from the local copy of the note id *)
RemoteDiffers(data, id) ==
  /\ Find(notes, id).id # Null
  /\ Find(data, id).id # Null
  /\ noteSignature(mapDbNote(Find(data, id))) # noteSignature(Find(notes, id))

SameNote(s, t, id) ==
  /\ Find(s, id).id # Null
  /\ Find(t, id).id # Null
  /\ Find(s, id) = Find(t, id)

(* C1: dirty suppression.  Whenever a notes merge runs, every note that is  *)
(* in the dirty set and whose row in the fetched snapshot differs from the  *)
(* local copy is, after the merge, in the store as the unchanged local copy *)
DirtySuppression ==
  [][\A r \in runs, data \in AllNoteSnapshots :
       NotesResolve(r, data) =>
         \A id \in dirtyNotesRef :
           RemoteDiffers(data, id) => SameNote(notes, notes', id)]_vars

AllStrokeSnapshots == StrokeSnapshots(<<"s1", "s2">>, {Absent, Plain, Fresh, Locked})

(* the row of the id in the snapshot carries a lock status *)
RemoteLocked(data, id) == Find(data, id).id # Null /\ IsLock(Find(data, id).status)

NoteShape(n) == <<n.x, n.y, n.width, n.height, n.rotation, n.content>>

(* C2: lock suppression.  Whenever a merge runs, every entity held in the   *)
(* store whose row in the fetched snapshot has status grabbing or drawing   *)
(* is in the store after the merge with its geometry and content unchanged: *)
(* notes in a notes merge, strokes in a strokes merge                       *)
LockSuppression ==
  /\ [][\A r \in runs, data \in AllNoteSnapshots :
          NotesResolve(r, data) =>
            \A id \in Ids(notes) :
              RemoteLocked(data, id) =>
                /\ id \in Ids(notes')
                /\ NoteShape(Find(notes', id)) = NoteShape(Find(notes, id))]_vars
  /\ [][\A r \in runs, raw \in AllStrokeSnapshots :
          DrawingsResolve(r, raw) =>
            \A id \in Ids(drawings) :
              RemoteLocked(raw, id) =>
                /\ id \in Ids(drawings')
                /\ Find(drawings', id).path_points = Find(drawings, id).path_points]_vars

(* the ids deleted locally less than 30 seconds ago *)
RecentlyDeleted(deleted) == {id \in DOMAIN deleted : now - deleted[id] < TombstoneWindow}

RemotePreDrag(data) ==
  LET row == Find(data, dragState.startNote.id) IN
  /\ row.id # Null
  /\ row.x = dragState.startNote.x
  /\ row.y = dragState.startNote.y
  /\ row.status = Null

(* the local user is dragging a note: dragState set, local status grabbing *)
Dragging ==
  /\ dragState.type = "move"
  /\ Find(notes, dragState.startNote.id).id # Null
  /\ Find(notes, dragState.startNote.id).status = "grabbing"

(* C4: while the local user is dragging note N, a notes merge whose         *)
(* snapshot holds N at the pre-drag position with status null leaves the    *)
(* live position of N in the store unchanged, however long the pointer has  *)
(* been held still                                                          *)
DragPositionKept ==
  [][\A r \in runs, data \in AllNoteSnapshots :
       (NotesResolve(r, data) /\ Dragging /\ RemotePreDrag(data)) =>
         LET id == dragState.startNote.id IN
         /\ id \in Ids(notes')
         /\ Find(notes', id).x = Find(notes, id).x
         /\ Find(notes', id).y = Find(notes, id).y]_vars

(* C5: a note with a debounced save scheduled and not fired yet is never    *)
(* replaced by the remote copy in a notes merge, also after its text area   *)
(* has lost the focus                                                       *)
UnsavedWorkKept ==
  [][\A r \in runs, data \in AllNoteSnapshots :
       NotesResolve(r, data) =>
         \A id \in DOMAIN saveTimers :
           RemoteDiffers(data, id) => SameNote(notes, notes', id)]_vars

(* C6: a note or stroke created locally whose first persistence has not     *)
(* succeeded yet is never removed from the store by a merge whose snapshot  *)
(* lacks it                                                                 *)
UnpersistedKept ==
  /\ [][\A r \in runs, data \in AllNoteSnapshots :
          NotesResolve(r, data) =>
            \A id \in (DOMAIN unsavedNotes) \cap Ids(notes) :
              Find(data, id).id = Null => id \in Ids(notes')]_vars
  /\ [][\A r \in runs, raw \in AllStrokeSnapshots :
          DrawingsResolve(r, raw) =>
            \A id \in localDrawingIdsRef \cap Ids(drawings) :
              Find(raw, id).id = Null => id \in Ids(drawings')]_vars

NotesStoreUpdate(data) ==
  LET m == NotesMerge(notesRef, deletedNotesRef, dirtyNotesRef, data, now)
  IN ~m.skipped /\ m.changed

DrawingsStoreUpdate(raw) ==
  LET m == DrawingsMerge(drawingsRef, drawingsCacheRef, deletedDrawingsRef,
                         localDrawingIdsRef, currentDrawingIdRef, raw, now)
  IN ~m.skipped /\ m.changed

(* C7: a merge run again with the rows of the previous run and no *)
(* local operation in between performs no store update and leaves the store *)
(* as it was                                                                *)
IdempotentMerge ==
  /\ [][\A r \in runs, data \in AllNoteSnapshots :
          (NotesResolve(r, data) /\ SameRows(lastMerge.notes, data)) =>
            (~NotesStoreUpdate(data) /\ notes' = notes)]_vars
  /\ [][\A r \in runs, raw \in AllStrokeSnapshots :
          (DrawingsResolve(r, raw) /\ SameRows(lastMerge.drawings, raw)) =>
            (~DrawingsStoreUpdate(raw) /\ drawings' = drawings)]_vars

(* a step of one of the local operations that change the notes *)
NoteOperation ==
  \/ AddNote("n1", 228, 228, 0)
  \/ DeleteSelected
  \/ UpdateNoteColor("blue")
  \/ UpdateNoteFontSize(2)
  \/ UpdateNoteContent("a")

(* C8: undo right after a note-changing operation restores the notes as     *)
(* they were before it, that is the operation leaves that value on top of   *)
(* the undo stack, and redo right after an undo restores the notes as they  *)
(* were before the undo, that is the undo leaves that value first in the    *)
(* redo stack                                                               *)
UndoRedoInverse ==
  /\ [][NoteOperation =>
          (history' # <<>> /\ history'[Len(history')] = notes)]_vars
  /\ [][Undo => (future' # <<>> /\ Head(future') = notes)]_vars

(* a step of one of the operations that call saveHistorySnapshot *)
SnapshotStep ==
  \/ AddNote("n1", 228, 228, 0)
  \/ DeleteSelected
  \/ UpdateNoteColor("blue")
  \/ NotePointerDown("n1", [x |-> 0, y |-> 0])

(* C9: the undo stack never holds more than 50 snapshots, after a redo      *)
(* included, and the redo stack is empty right after every                  *)
(* saveHistorySnapshot                                                      *)
HistoryBounded ==
  /\ [](Len(history) <= HistoryDepth)
  /\ [][SnapshotStep => future' = <<>>]_vars

(* the undo stack is full and its oldest snapshot, the empty board, has     *)
(* been dropped                                                             *)
HistoryBoundedWitness ==
  /\ Len(history) = HistoryDepth
  /\ history[1] # <<>>
  /\ future = <<>>

(* C10: no two fetch-and-merge runs of the same collection are awaiting    *)
(* their fetch at the same time, whether started by the interval, by an     *)
(* on-load effect or after the interval effect was re-created              *)
NoOverlappingRuns ==
  \A r1 \in runs, r2 \in runs : r1.coll = r2.coll => r1 = r2

(* the note the pointer is moving, resizing or rotating *)
DraggedId == IF dragState.type = None THEN None ELSE dragState.startNote.id

(* C11: a fetch that completes inside the guard window of a local           *)
(* interaction begun after it was issued does not replace the entity being  *)
(* edited: a notes merge completing less than 300 ms after a pointer-move   *)
(* of a drag leaves the dragged note as it is, and a strokes merge          *)
(* completing while a stroke is drawn leaves that stroke as it is           *)
LateMergeDemoted ==
  /\ [][\A r \in runs, data \in AllNoteSnapshots :
          (NotesResolve(r, data) /\ DragRecent /\ DraggedId \in Ids(notes)) =>
            SameNote(notes, notes', DraggedId)]_vars
  /\ [][\A r \in runs, raw \in AllStrokeSnapshots :
          (DrawingsResolve(r, raw) /\ isDrawing /\ currentDrawingIdRef \in Ids(drawings)) =>
            SameNote(drawings, drawings', currentDrawingIdRef)]_vars

(* the note id is being manipulated locally: it holds the soft lock *)
LockedLocally(id) == Find(notes, id).id # Null /\ Find(notes, id).status = "grabbing"

(* C12: soft-lock release.  When a manipulation of a note ends (pointer-up  *)
(* after a move, blur after editing) the local status of the note becomes   *)
(* null, and no write carrying status grabbing is issued for a note after   *)
(* its release: a debounced save that carries status grabbing fires only    *)
(* while the note is still locked locally                                   *)
SoftLockRelease ==
  /\ [][(BlurNote /\ focusedNote \in Ids(notes)) =>
          Find(notes', focusedNote).status = Null]_vars
  /\ [][(FinishPointerInteraction /\ pendingNoteSaveIdRef \in Ids(notes)) =>
          Find(notes', pendingNoteSaveIdRef).status = Null]_vars
  /\ [][\A id \in NoteIds :
          (SaveTimerFire(id) /\ upsertIssued /\ saveTimers[id].note.status = "grabbing") =>
            LockedLocally(id)]_vars

(* C13: pointer-up, pointer-cancel or loss of capture returns the           *)
(* interaction to idle and leaves no debounce timer pending for the         *)
(* manipulated note                                                         *)
PointerUpFlushes ==
  [][(FinishPointerInteraction /\ pendingNoteSaveIdRef # None) =>
       /\ dragState' = NoDrag
       /\ pendingNoteSaveIdRef \notin DOMAIN saveTimers']_vars

(* the request that persists the stroke being drawn as finished *)
FinalSave == [id |-> currentDrawingIdRef, status |-> Null]

(* C14: a stroke drawn with pointer-down, pointer-moves and pointer-up is   *)
(* persisted as finished exactly once: no move issues a persistence call,   *)
(* the handler that ends the stroke issues the one finalized call, no other *)
(* step issues one, and a further invocation of the finish handler for the  *)
(* same pointer-up issues nothing                                           *)
StrokeSavedOnce ==
  /\ [][(PointerMoveDraw([x |-> 40, y |-> 0]) \/ TouchMove([x |-> 40, y |-> 0])) =>
          drawingSaves' = drawingSaves]_vars
  /\ [][(FinishPointerInteraction /\ isDrawing /\ ~cancelCurrentDrawingRef
           /\ Len(currentPathRef) >= 2 /\ currentDrawingIdRef # None) =>
          FinalSave \in drawingSaves' \ drawingSaves]_vars
  /\ [][\A req \in drawingSaves' \ drawingSaves :
          req.status = Null => (FinishPointerInteraction /\ isDrawing /\ req = FinalSave)]_vars
  /\ [][FinishAgain => drawingSaves' = drawingSaves]_vars

StrokeSavedOnceWitness ==
  /\ ~isDrawing
  /\ lastDrawingEndRef = now
  /\ currentDrawingIdRef = None
  /\ \E req \in drawingSaves : req.status = Null
  /\ \E i \in 1..Len(drawings) : Len(drawings[i].path_points) >= 2

(* the tools a switch can select *)
Tools == {"select", "hand", "note", "text", "image", "pen", "eraser"}

(* C15: when the tool is switched away from the pen while a stroke is       *)
(* active, by the toolbar or by a keyboard shortcut, the stroke leaves the  *)
(* store, and no finalized persistence call is issued for a stroke whose    *)
(* tool was switched away                                                   *)
ToolSwitchCancels ==
  /\ [][\A tool \in Tools \ {"pen"} :
          ((HandleToolChange(tool) \/ SetActiveTool(tool)) /\ activeTool = "pen"
             /\ isDrawing /\ currentDrawingIdRef # None) =>
            currentDrawingIdRef \notin Ids(drawings')]_vars
  /\ [][\A req \in drawingSaves' \ drawingSaves :
          req.status = Null => activeTool = "pen"]_vars

(* the strokes of the store the local user drew and finished less than the  *)
(* cache window ago                                                         *)
FinishedRecently ==
  {id \in Ids(drawings) \cap usedIds :
     /\ id # currentDrawingIdRef
     /\ Len(Find(drawings, id).path_points) >= 2
     /\ now - Epoch < CacheWindow}

(* C16: a stroke the local user finished drawing less than 30 seconds ago   *)
(* stays in the store after a merge whose snapshot does not contain it,     *)
(* whether it was drawn through the pointer or through the touch handlers   *)
RecentStrokeKept ==
  [][\A r \in runs, raw \in AllStrokeSnapshots :
       DrawingsResolve(r, raw) =>
         \A id \in FinishedRecently : id \notin Ids(raw) => id \in Ids(drawings')]_vars

(* C17: after addNote at an in-bounds position the note is in the store     *)
(* with its assigned id in the very step of the handler, before any         *)
(* network request resolves, whether or not the upsert is issued; the       *)
(* success or the failure of the upsert leaves the store as it is           *)
OptimisticInsert ==
  /\ [][\A id \in NoteIds, x \in {-1, 228, 1921} :
          (AddNote(id, x, 228, 0) /\ InBounds(x, 228)) =>
            /\ id \notin Ids(notes)
            /\ id \in Ids(notes')
            /\ Find(notes', id) = NewNote(id, x, 228, Find(notes', id).type, 0, highestZIndex')
            /\ runs' = runs]_vars
  /\ [][\A id \in NoteIds : (NoteSaveDone(id) \/ NoteSaveFail(id)) => notes' = notes]_vars

OptimisticInsertWitness ==
  /\ "n1" \in Ids(notes)
  /\ "n1" \in DOMAIN unsavedNotes
  /\ unsavedNotes["n1"]
  /\ runs # {}
  /\ "n2" \in Ids(notes)
  /\ "n2" \in DOMAIN unsavedNotes
  /\ ~unsavedNotes["n2"]

(* what a reconciliation tick may change *)
TickState == <<notes, drawings, deletedNotesRef, deletedDrawingsRef, drawingsCacheRef,
               highestZIndex>>

(* C18: a reconciliation fetch that fails changes nothing: both stores,     *)
(* both tombstone maps, the stroke cache and the highest-z counter keep     *)
(* their values, the failed request is over and no request for the same     *)
(* list is issued in its place                                              *)
FailedFetchNoOp ==
  [][\A r \in runs :
       (NotesFail(r) \/ DrawingsFail(r)) =>
         /\ TickState' = TickState
         /\ r \notin runs'
         /\ \A q \in runs' \ runs : q.coll # r.coll]_vars

FailedFetchNoOpWitness ==
  /\ \E r \in runs : r.owner = "tick" /\ r.coll = "drawings"
  /\ notes # <<>>
  /\ drawingsCacheRef # <<>>
  /\ DOMAIN deletedDrawingsRef # {}
  /\ highestZIndex > BaseZIndex

(* the debounce timer of the note id was set or reset by the step *)
Rescheduled(id) ==
  /\ id \in DOMAIN saveTimers'
  /\ (id \notin DOMAIN saveTimers \/ saveTimers'[id] # saveTimers[id])

(* C19: debounced save.  Every scheduleSaveNote call for a note puts its    *)
(* one timer 400 ms after that call with the note value of that call, a     *)
(* timer ends only by firing, at its deadline, which issues the one write   *)
(* and leaves no timer for the note, and neither a call nor a firing for    *)
(* one note touches the timer of another                                    *)
DebounceLastCall ==
  /\ [][\A id \in NoteIds :
          Rescheduled(id) =>
            /\ saveTimers'[id] = [due |-> now + SaveDelay, note |-> Find(notes', id)]
            /\ \A q \in NoteIds \ {id} :
                 ~Rescheduled(q) /\ (q \in DOMAIN saveTimers => q \in DOMAIN saveTimers')]_vars
  /\ [][\A id \in DOMAIN saveTimers \ DOMAIN saveTimers' :
          /\ SaveTimerFire(id)
          /\ saveTimers[id].due = now
          /\ \A q \in DOMAIN saveTimers \ {id} :
               q \in DOMAIN saveTimers' /\ saveTimers'[q] = saveTimers[q]]_vars

DebounceLastCallWitness ==
  /\ "n1" \in DOMAIN saveTimers
  /\ "n2" \in DOMAIN saveTimers
  /\ saveTimers["n1"].due # saveTimers["n2"].due
  /\ saveTimers["n1"].note.content = "b"
  /\ now > Epoch
  /\ saveTimers["n1"].due = now + SaveDelay

(* a locally created note the writes of which the model follows *)
Followed(id) == id \in DOMAIN unsavedNotes /\ id \in Ids(notes)

(* C20: on a board that is online and ready, note creation, note deletion   *)
(* and every lock acquire and release issue their backend write in the step *)
(* of the handler that makes the local change, and none of these handlers   *)
(* sets a debounce timer                                                    *)
ImmediateWrites ==
  /\ [][(\/ \E id \in NoteIds : AddNote(id, 228, 228, 0)
         \/ DeleteSelected
         \/ \E id \in NoteIds : NotePointerDown(id, [x |-> 0, y |-> 0])
         \/ FinishPointerInteraction
         \/ \E id \in NoteIds : FocusNote(id)
         \/ BlurNote) => saveTimers' = saveTimers]_vars
  /\ [][\A id \in NoteIds : (AddNote(id, 228, 228, 0) /\ upsertIssued) => unsavedNotes'[id]]_vars
  /\ [][\A id \in NoteIds :
          ((NotePointerDown(id, [x |-> 0, y |-> 0]) \/ FocusNote(id))
             /\ upsertIssued /\ Followed(id)) => unsavedNotes'[id]]_vars
  /\ [][(FinishPointerInteraction /\ upsertIssued /\ pendingNoteSaveIdRef # None
           /\ Followed(pendingNoteSaveIdRef)) => unsavedNotes'[pendingNoteSaveIdRef]]_vars
  /\ [][(BlurNote /\ upsertIssued /\ Followed(focusedNote)) => unsavedNotes'[focusedNote]]_vars
  /\ [][(DeleteSelected /\ upsertIssued) => selectedNoteIds \subseteq noteDeletes']_vars

(* the merge of the rows data, as fetchNotesOnce would compute it now *)
MergeNow(data) == NotesMerge(notesRef, deletedNotesRef, dirtyNotesRef, data, now)

(* C21: after every notes merge that is not skipped the highest-z counter   *)
(* is at least the z-order of every note of the store, local copies kept    *)
(* because dirty or locked included, and no merge lowers the counter        *)
ZCounterCovers ==
  [][\A r \in runs, data \in AllNoteSnapshots :
       NotesResolve(r, data) =>
         /\ highestZIndex' >= highestZIndex
         /\ ~MergeNow(data).skipped =>
              \A i \in 1..Len(notes') : notes'[i].zIndex <= highestZIndex']_vars

(* a content edit was made less than the edit guard ago: its debounce timer *)
(* is still pending and tells the time of the call                          *)
EditedRecently ==
  \E id \in DOMAIN saveTimers : now - (saveTimers[id].due - SaveDelay) < EditGuard

(* C22: a tick that starts less than 1000 ms after a local content edit     *)
(* issues no notes fetch; every content edit advances the last-local-edit   *)
(* timestamp, which never moves backwards                                   *)
EditGuardSkips ==
  /\ [][(TickStart /\ EditedRecently) => \A q \in runs' \ runs : q.coll # "notes"]_vars
  /\ [][UpdateNoteContent("a") => lastLocalNoteEditRef' = now]_vars
  /\ [][lastLocalNoteEditRef' >= lastLocalNoteEditRef]_vars

(* the note finishPointerInteraction passes to upsertNote: the copy of the  *)
(* notesRef mirror with the status cleared                                  *)
ReleaseWrite == [Find(notesRef, pendingNoteSaveIdRef) EXCEPT !.status = Null]

Geometry(n) == <<n.x, n.y, n.width, n.height, n.rotation>>

(* C23: the write issued when a move ends carries the final state of the    *)
(* note: its x, y, width, height and rotation are those of the note in the  *)
(* store after the last pointer-move                                        *)
FinalStateWritten ==
  [][(FinishPointerInteraction /\ upsertIssued /\ pendingNoteSaveIdRef \in Ids(notesRef)
        /\ pendingNoteSaveIdRef \in Ids(notes)) =>
       Geometry(ReleaseWrite) = Geometry(Find(notes, pendingNoteSaveIdRef))]_vars

(* C24: once the pointer-up of a stroke has been handled the stroke is      *)
(* either discarded from the store or a write with status null has been     *)
(* issued for it, a stroke of a single point included                       *)
StrokeFinalizedOrDiscarded ==
  [][(FinishPointerInteraction /\ isDrawing /\ currentDrawingIdRef # None) =>
       (currentDrawingIdRef \notin Ids(drawings') \/ FinalSave \in drawingSaves')]_vars

(* C25: a pointer-move or a touch-move appends points only to the stroke    *)
(* whose id is the active drawing id; the point sequence of every other     *)
(* stroke of the store is left as it is                                     *)
OnlyActiveStrokeGrows ==
  [][(PointerMoveDraw([x |-> 40, y |-> 0]) \/ TouchMove([x |-> 40, y |-> 0])) =>
       \A i \in 1..Len(drawings) :
         drawings[i].id # currentDrawingIdRef =>
           Find(drawings', drawings[i].id).path_points = drawings[i].path_points]_vars

(* the rows of data that pass the tombstone filter, mapped *)
Mapped(data) ==
  LET rows == SelectSeq(data, LAMBDA r : r.id \notin DOMAIN MergeNow(data).deleted)
  IN [i \in 1..Len(rows) |-> mapDbNote(rows[i])]

(* the notes a merge of data may replace: present in the local copy the     *)
(* merge reads and in the snapshot, not dirty, not locked remotely          *)
Replaceable(data) ==
  {id \in Ids(notesRef) \cap Ids(Mapped(data)) :
     /\ id \notin DOMAIN MergeNow(data).deleted
     /\ id \notin dirtyNotesRef
     /\ ~IsLock(Find(Mapped(data), id).status)}

SameNoteIds(data) ==
  /\ Ids(Mapped(data)) =
       {id \in Ids(notesRef) : id \notin DOMAIN MergeNow(data).deleted}
  /\ \A i \in 1..Len(Mapped(data)) : Mapped(data)[i].freshness # "new"

SameStrokeIds(raw) ==
  /\ Ids(raw) = Ids(drawingsRef)
  /\ \A i \in 1..Len(raw) : normalizeDrawing(raw[i]).freshness # "new"

(* C27: when the local and the remote id sets are equal and no remote       *)
(* entity is marked new, the tick skips the merge: the store, the stroke    *)
(* cache and the highest-z counter are left unchanged, also when the fields *)
(* of a remote entity differ from the local copy                            *)
SkipLeavesStore ==
  /\ [][\A r \in runs, data \in AllNoteSnapshots :
          (NotesResolve(r, data) /\ SameNoteIds(data)) =>
            notes' = notes /\ highestZIndex' = highestZIndex]_vars
  /\ [][\A r \in runs, raw \in AllStrokeSnapshots :
          (DrawingsResolve(r, raw) /\ SameStrokeIds(raw)) =>
            drawings' = drawings /\ drawingsCacheRef' = drawingsCacheRef]_vars

SkipLeavesStoreWitness ==
  /\ lastMerge.notes.valid
  /\ Ids(lastMerge.notes.data) = {"n1"}
  /\ Find(lastMerge.notes.data, "n1").freshness = Null
  /\ Ids(notes) = {"n1"}
  /\ notesRef = notes
  /\ "n1" \notin dirtyNotesRef
  /\ Find(notes, "n1").content = "a"
  /\ Find(lastMerge.notes.data, "n1").content = "r"

StrokesNow(raw) ==
  DrawingsMerge(drawingsRef, drawingsCacheRef, deletedDrawingsRef,
                localDrawingIdsRef, currentDrawingIdRef, raw, now)

(* C28: after a merge that is not skipped, every entity of the fetched      *)
(* snapshot that has no live tombstone and was absent locally is in the     *)
(* store, for notes and for strokes                                         *)
RemoteInserted ==
  /\ [][\A r \in runs, data \in AllNoteSnapshots :
          (NotesResolve(r, data) /\ NotesMerged(data) /\ ~MergeNow(data).skipped) =>
            \A id \in Ids(Mapped(data)) \ (Ids(notesRef) \cup Ids(notes)) :
              id \in Ids(notes')]_vars
  /\ [][\A r \in runs, raw \in AllStrokeSnapshots :
          (DrawingsResolve(r, raw) /\ DrawingsMerged(raw)
             /\ ~StrokesNow(raw).skipped) =>
            \A id \in Ids(raw) \ (Ids(drawingsRef) \cup Ids(drawings)) :
              id \notin DOMAIN StrokesNow(raw).deleted => id \in Ids(drawings')]_vars

(* C29: after a strokes merge that is not skipped the store holds exactly   *)
(* the cache entries seen less than 30 s ago or carrying the active stroke  *)
(* id, every fetched stroke that is neither locked nor tombstoned was       *)
(* folded into the cache, and a cached stroke that is absent from the       *)
(* snapshot, not locally pending and not active was evicted                 *)
StoreFromCache ==
  /\ [][\A r \in runs, raw \in AllStrokeSnapshots :
          (DrawingsResolve(r, raw) /\ drawingsRef = drawings
             /\ ~StrokesNow(raw).skipped) =>
            {drawings'[i] : i \in 1..Len(drawings')} =
              {drawingsCacheRef'[j].drawing :
                 j \in {k \in 1..Len(drawingsCacheRef') :
                          \/ now - drawingsCacheRef'[k].lastSeen < CacheWindow
                          \/ drawingsCacheRef'[k].id = currentDrawingIdRef}}]_vars
  /\ [][\A r \in runs, raw \in AllStrokeSnapshots :
          (DrawingsResolve(r, raw) /\ DrawingsMerged(raw)
             /\ ~StrokesNow(raw).skipped) =>
            \A i \in 1..Len(raw) :
              (~IsLock(normalizeDrawing(raw[i]).status)
                 /\ raw[i].id \notin DOMAIN StrokesNow(raw).deleted) =>
                /\ raw[i].id \in Ids(drawingsCacheRef')
                /\ MapGet(drawingsCacheRef', raw[i].id).drawing = normalizeDrawing(raw[i])
                /\ MapGet(drawingsCacheRef', raw[i].id).lastSeen = now]_vars
  /\ [][\A r \in runs, raw \in AllStrokeSnapshots :
          (DrawingsResolve(r, raw) /\ ~StrokesNow(raw).skipped) =>
            \A id \in Ids(drawingsCacheRef) \ Ids(raw) :
              (id \notin localDrawingIdsRef /\ id # currentDrawingIdRef) =>
                id \notin Ids(drawingsCacheRef')]_vars

Unexpired(deleted) == {id \in DOMAIN deleted : now - deleted[id] <= TombstoneWindow}

(* C30: a tombstone is removed by the first successful merge that runs more *)
(* than 30 000 ms after the deletion and by no earlier step; a snapshot     *)
(* that still holds the id then brings the entity back into the store       *)
TombstoneExpiry ==
  /\ [][\A r \in runs, data \in AllNoteSnapshots :
          NotesResolve(r, data) =>
            DOMAIN deletedNotesRef' = Unexpired(deletedNotesRef)]_vars
  /\ [][\A r \in runs, raw \in AllStrokeSnapshots :
          (DrawingsResolve(r, raw) /\ ~StrokesNow(raw).skipped) =>
            DOMAIN deletedDrawingsRef' = Unexpired(deletedDrawingsRef)]_vars
  /\ [][/\ Unexpired(deletedNotesRef) \subseteq DOMAIN deletedNotesRef'
        /\ Unexpired(deletedDrawingsRef) \subseteq DOMAIN deletedDrawingsRef']_vars
  /\ [][\A r \in runs, data \in AllNoteSnapshots :
          (NotesResolve(r, data) /\ notesRef = notes) =>
            \A id \in (DOMAIN deletedNotesRef \ Unexpired(deletedNotesRef))
                        \cap Ids(data) : id \in Ids(notes')]_vars
  /\ [][\A r \in runs, raw \in AllStrokeSnapshots :
          (DrawingsResolve(r, raw) /\ drawingsRef = drawings) =>
            \A id \in (DOMAIN deletedDrawingsRef \ Unexpired(deletedDrawingsRef))
                        \cap Ids(raw) : id \in Ids(drawings')]_vars

(* C31: a stroke of the store with a point within 10 px of the eraser is    *)
(* removed from the store and from the stroke cache, gets a tombstone and a *)
(* delete request; a stroke with no point within the radius is unchanged    *)
EraserRemoves ==
  [][EraserAt(40, 0) =>
       \A i \in 1..Len(drawings) :
         IF Hit(drawings[i].path_points, 40, 0)
         THEN /\ drawings[i].id \notin Ids(drawings')
              /\ drawings[i].id \notin Ids(drawingsCacheRef')
              /\ drawings[i].id \in DOMAIN deletedDrawingsRef'
              /\ deletedDrawingsRef'[drawings[i].id] = now
              /\ drawings[i].id \in drawingDeletes'
         ELSE /\ drawings[i].id \in Ids(drawings')
              /\ Find(drawings', drawings[i].id) = drawings[i]]_vars

(* C32: every note of the store that was created or resized locally is at   *)
(* least 150 wide and at least as high as the minimum of its current type   *)
(* (50 for text, 150 otherwise), after any sequence of add, resize and      *)
(* colour-change operations                                                 *)
MinimumSize ==
  \A i \in 1..Len(notes) :
    /\ notes[i].width >= MIN_SIZE
    /\ notes[i].height >= minH(notes[i].type)

(* C33: an orientation change transforms every note of the store in one    *)
(* store update, and turning from landscape to portrait and back returns    *)
(* the x and y of every note to their values before                         *)
RoundTrip ==
  /\ [][\A o \in {"landscape", "portrait"} :
          HandleResize(o) =>
            /\ Len(notes') = Len(notes)
            /\ \A i \in 1..Len(notes) : notes'[i] = Rotated(notes[i], o)]_vars
  /\ [][HandleResize("portrait") =>
          \A i \in 1..Len(notes) :
            /\ Rotated(notes'[i], "landscape").x = notes[i].x
            /\ Rotated(notes'[i], "landscape").y = notes[i].y]_vars
  /\ [][HandleResize("landscape") =>
          \A i \in 1..Len(notes) :
            /\ Rotated(notes'[i], "portrait").x = notes[i].x
            /\ Rotated(notes'[i], "portrait").y = notes[i].y]_vars

RoundTripWitness ==
  /\ lastOrientation = "portrait"
  /\ Len(notes) = 2
  /\ notes[1].x # notes[2].x
  /\ notes[1].y # notes[2].y
  /\ \E i \in 1..2 : notes[i].width # notes[i].height

(* C34: a merge builds its replacement from the latest store: a local       *)
(* change of a note that is in the store but not yet in the notesRef mirror *)
(* is not lost when the merge replaces the store, so the note is afterwards *)
(* the store's copy or the fetched copy, never the mirror's older copy      *)
MergeKeepsUnmirrored ==
  [][\A r \in runs, data \in AllNoteSnapshots :
       NotesResolve(r, data) =>
         \A id \in (Ids(notes) \cap Ids(notesRef) \cap Ids(Mapped(data))) :
           Find(notes, id) # Find(notesRef, id) =>
             /\ id \in Ids(notes')
             /\ Find(notes', id) \in {Find(notes, id), Find(Mapped(data), id)}]_vars

(* C35: a note that undo has put back into the store while its tombstone   *)
(* is still live stays in the store across every later merge               *)
UndoneStays ==
  [][\A r \in runs, data \in AllNoteSnapshots :
       NotesResolve(r, data) =>
         \A id \in Ids(notes) \cap Ids(notesRef) \cap Unexpired(deletedNotesRef) :
           id \in Ids(notes')]_vars

(* C36: whiteboardReady is true only when an existence check of the board   *)
(* id in effect has completed successfully, and no note upsert or delete    *)
(* request is issued before that, also when a check started for an earlier  *)
(* id completes after the id has changed                                    *)
ReadyMeansChecked ==
  /\ [](whiteboardReady => effectiveWhiteboardId \in boardsChecked)
  /\ [][\A id \in NoteIds :
          (id \notin DOMAIN unsavedNotes /\ id \in DOMAIN unsavedNotes' /\ unsavedNotes'[id])
            => effectiveWhiteboardId \in boardsChecked]_vars
  /\ [][noteDeletes' \ noteDeletes # {} => effectiveWhiteboardId \in boardsChecked]_vars

(* C37: while isOffline is true no local operation and no timer issues a    *)
(* backend request: no list, no note upsert or delete, no stroke save or    *)
(* delete                                                                   *)
OfflineSilent ==
  [][(isOffline /\ isOffline') =>
       /\ runs' \subseteq runs
       /\ noteDeletes' \subseteq noteDeletes
       /\ drawingDeletes' \subseteq drawingDeletes
       /\ drawingSaves' \subseteq drawingSaves
       /\ \A id \in DOMAIN unsavedNotes' :
            unsavedNotes'[id] => (id \in DOMAIN unsavedNotes /\ unsavedNotes[id])]_vars

(***************************************************************************)
(* The worker serving two users who have no board yet                      *)
(***************************************************************************)
NextServer ==
  \/ \E user \in UserIds, method \in {"GET", "PUT", "DELETE"}, t \in Tables,
        id \in RowIds, body \in Bodies :
       HandleWhiteboardApi(user, method, t, id, body)
  \/ \E s \in Slots : GetBoards(s)
  \/ \E s \in Slots, newId \in BoardUuids : CreateBoard(s, newId)
  \/ \E s \in Slots : GetRows(s)
  \/ \E s \in Slots : UpsertRow(s)
  \/ \E s \in Slots : DeleteRow(s)

SpecServer == InitReady /\ [][NextServer]_vars

(* C38: for one user every request resolves to the same board, also when   *)
(* requests are served concurrently while the user has no board: at most   *)
(* one board row exists per user, and every note or drawing the user wrote *)
(* is among the rows a later list request of that user answers             *)
OneBoardPerUser ==
  /\ \A user \in UserIds : Len(BoardsOf(user)) <= 1
  /\ \A s \in Slots :
       (requests[s].pc \in {"rows", "upsert"}) =>
         requests[s].boardId = BoardsOf(requests[s].user_id)[1].id
  /\ \A t \in Tables, id \in RowIds :
       id \in DOMAIN sbRows[t] =>
         LET boards == BoardsOf(sbRows[t][id].user_id)
         IN Len(boards) > 0 /\ sbRows[t][id].whiteboard_id = boards[1].id

(* what a list request of the user would answer now                        *)
Listed(user, t) ==
  IF Len(BoardsOf(user)) > 0 THEN RowsOfBoard(t, BoardsOf(user)[1].id) ELSE {}

(* C39: a PUT or DELETE of a note or drawing by one user never changes,    *)
(* moves or removes a row of another user's board: what a list request of  *)
(* user V answers is the same before and after a write of another user U   *)
WritesStayInBoard ==
  [][\A s \in Slots :
       (UpsertRow(s) \/ DeleteRow(s)) =>
         \A user \in UserIds \ {requests[s].user_id}, t \in Tables :
           Listed(user, t)' = Listed(user, t)]_vars

====
